---- MODULE Spec2Model ----
(***************************************************************************)
(* Event analysis engine of the SIEM backend: alert manager, notification  *)
(* service, threshold sweep of the rule engine, time windows and the       *)
(* analyzer core's event handling.                                         *)
(*                                                                         *)
(* Conventions.  Python None is the string "None".  A string that takes    *)
(* part in a "|".join is a sequence of bar-free segments, so that the      *)
(* title "security|medium" is <<"security", "medium">>; a string that      *)
(* takes part in startswith is a sequence of characters.  md5 is taken to  *)
(* be collision free: a digest is represented by the string it digests.    *)
(***************************************************************************)
EXTENDS Integers, Sequences, FiniteSets, TLC

VARIABLES
    \* ---- AlertManager (alert_manager.py) ----
    alerts,            \* self.alerts: id -> Alert
    alerts_by_dedup,   \* self.alerts_by_dedup: dedup key -> id of the Alert object
    alerts_by_group,   \* self.alerts_by_group: group number -> sequence of alert ids
    next_id,           \* self._next_id
    stats,             \* self.stats
    now,               \* the wall clock, datetime.now(timezone.utc)
    lastCall,          \* the last AlertManager / Alert operation invoked, with its arguments
    lastRet,           \* what it returned ("True", "False", "ValueError", "None", "Alert")
    lastAlert,         \* the id of the Alert create_alert returned (0: none yet)
    \* ---- AlertActionEngine (alert_actions.py) ----
    action_configs,    \* self.action_configs: alert type -> sequence of ActionConfig
    active_blocks,     \* self.active_blocks: the blocked IPs and their expiry, in dict order
    action_history,    \* self.action_history
    lastActions,       \* the last process_alert call: its context, the configs it walked,
                       \* what it executed, what it queued and what it returned
    \* ---- NotificationService (notification_service.py) ----
    recipients,        \* self.recipients: sequence of NotificationRecipient
    notifications,     \* the Notification objects created so far, by position
    delivery_queue,    \* self.delivery_queue: positions of queued notifications
    nstats,            \* self.stats
    is_running,        \* self.is_running
    workers,           \* the _delivery_worker tasks created by start()
    \* ---- RuleEngine (rule_engine.py) ----
    rule_set,          \* self.rule_set: the RuleSet object (gen tells the objects apart)
    threshold_cache,   \* self.threshold_cache: group key -> entries, in dict order
    estats,            \* self.stats
    lastSweep,         \* the last pass of _threshold_processor: what it checked and fired
    load_errors,       \* errors the latest _load_rules logged for files and rules it skipped
    lastProcess,       \* the last RuleEngine.process_event call: its event and what it did
    rule_correlation_cache, \* self.correlation_cache: correlation key -> entries
    \* ---- AnalyzerCore (analyzer_core.py) and the asyncio event loop ----
    core,              \* is_running, the counters and self.event_cache
    calls,             \* the process_event coroutines scheduled so far, by position
    loop,              \* the call the event loop is running (0: the loop is free)
    dedup_cache,       \* dedup_manager._dedup_cache and _cache_ttl: the entries, in dict order
    lastDup,           \* the last is_duplicate call, and what the cache recorded for each key
    \* ---- CorrelationEngine (correlation_engine.py) ----
    correlation_rules, \* self.correlation_rules
    event_cache,       \* self.event_cache: event key -> entries, in dict order
    correlation_cache, \* self.correlation_cache: the stored results, in the order stored
    correlation_stats, \* self.stats
    computed,          \* the CorrelationResults the last call computed, stored or not
    \* ---- the periodic tasks of AnalyzerCore and RuleEngine ----
    periodic_tasks,    \* the tasks start() created that have not ended, by position
    engine_running,    \* RuleEngine.is_running
    lastTask           \* the sweep a periodic task began last, and how many have begun

actionVars == <<action_configs, active_blocks, action_history, lastActions>>

\* The alert side of the server: the AlertManager and the AlertActionEngine.
alertVars == <<alerts, alerts_by_dedup, alerts_by_group, next_id, stats,
               lastCall, lastRet, lastAlert, actionVars>>

notifVars == <<recipients, notifications, delivery_queue, nstats, is_running, workers>>

procVars == <<lastProcess, rule_correlation_cache>>

ruleVars == <<rule_set, threshold_cache, estats, lastSweep, load_errors, procVars>>

dedupVars == <<dedup_cache, lastDup>>

loopVars == <<core, calls, loop, dedupVars>>

corrVars == <<correlation_rules, event_cache, correlation_cache, correlation_stats,
              computed>>

taskVars == <<periodic_tasks, engine_running, lastTask>>

vars == <<now, alertVars, notifVars, ruleVars, loopVars, corrVars, taskVars>>

\* What a step of one component leaves alone: the state of the others.
AlertsOnly == UNCHANGED <<actionVars, notifVars, ruleVars, loopVars, corrVars, taskVars>>
ActionsOnly == UNCHANGED <<alerts, alerts_by_dedup, alerts_by_group, next_id, stats,
                           lastCall, lastRet, lastAlert,
                           notifVars, ruleVars, loopVars, corrVars, taskVars>>
NotifyOnly == UNCHANGED <<now, alertVars, ruleVars, loopVars, corrVars, taskVars>>
RulesOnly == UNCHANGED <<alertVars, notifVars, loopVars, corrVars, taskVars>>
CallOnly == UNCHANGED <<now, alertVars, notifVars, lastSweep, procVars, corrVars,
                         taskVars>>
LoopOnly == CallOnly /\ UNCHANGED dedupVars
CorrelationOnly == UNCHANGED <<alertVars, notifVars, ruleVars, loopVars, taskVars>>

None == "None"

\* ------------------------------------------------------------------------
\* Bounds of the model
\* ------------------------------------------------------------------------
MaxAlerts == 2          \* create_alert constructs at most this many alerts
MaxDuplicates == 1      \* suppressed duplicates counted in stats at most this often
MaxNotes == 1           \* notes passed to lifecycle operations, over all alerts
MaxTime == 1            \* the clock (datetime.now()) advances at most this far
MaxRecipients == 2      \* configured recipients, and recipient ids passed to send_notification
MaxNotifications == 1   \* notifications sent
MaxWorkers == 1         \* delivery workers created by start()
MaxEvents == 3          \* events handed to RuleEngine.process_event
MaxGroupedAlerts == 3   \* alerts create_alert constructs while groups are watched
MaxSweeps == 2          \* passes of the threshold processor
MaxSweepTime == 3       \* the clock advances at most this far under the rule engine
MaxCalls == 2           \* process_event coroutines scheduled on the event loop
MaxReloads == 2         \* times the rule set is loaded again

\* ------------------------------------------------------------------------
\* Inputs
\* ------------------------------------------------------------------------
Titles == {<<"T1">>, <<"security", "medium">>}
SourceIps == {None, "10.0.0.5"}
Severities == {"medium"}
AlertTypes == {"security"}
Users == {"alice"}
NoteArgs == {None, "n"}
EscalationRuleArgs == {"time_based"}

\* AlertContext(source_ip=ip): the other fields keep their default None.
AlertContext(ip) ==
    [source_ip |-> ip, destination_ip |-> None, source_port |-> None,
     destination_port |-> None, protocol |-> None, user |-> None]

CreateArgs ==
    [title : Titles, alert_type : AlertTypes, severity : Severities,
     source : {"analyzer"}, rule_name : {"r1"},
     context : {AlertContext(ip) : ip \in SourceIps}]

\* The one alert the lifecycle operations are exercised on.
LifecycleArgs ==
    {a \in CreateArgs : a.title = <<"T1">> /\ a.context.source_ip = "10.0.0.5"}

\* ------------------------------------------------------------------------
\* Dedup keys
\* ------------------------------------------------------------------------
\* str(x or ""): None (and any falsy value) becomes the empty string.
StrOrEmpty(x) == IF x = None THEN <<"">> ELSE <<x>>

RECURSIVE JoinBar(_)
\* "|".join(parts): parts are segment sequences; the joined string is the
\* sequence of all their segments.
JoinBar(parts) ==
    IF parts = <<>> THEN <<>> ELSE Head(parts) \o JoinBar(Tail(parts))

Md5Hex(key_string) == key_string

\* The eight leading key parts both key functions share.
CommonKeyParts(source, rule_name, context) ==
    << <<source>>, StrOrEmpty(rule_name),
       StrOrEmpty(context.source_ip), StrOrEmpty(context.destination_ip),
       StrOrEmpty(context.source_port), StrOrEmpty(context.destination_port),
       StrOrEmpty(context.protocol), StrOrEmpty(context.user) >>

\* AlertManager._generate_dedup_key: the key create_alert looks up.
ManagerDedupKey(title, source, rule_name, context) ==
    Md5Hex(JoinBar(CommonKeyParts(source, rule_name, context) \o <<title>>))

\* Alert._generate_dedup_key: the key a new Alert stores in dedup_key.
AlertDedupKey(a) ==
    Md5Hex(JoinBar(CommonKeyParts(a.source, a.rule_name, a.context)
                   \o << <<a.alert_type>>, <<a.severity>> >>))

\* ------------------------------------------------------------------------
\* Alert
\* ------------------------------------------------------------------------
OpenStatuses == {"new", "acknowledged", "in_progress", "escalated"}
AllStatuses == OpenStatuses \cup {"resolved", "closed"}

max_escalation_level == 3

\* Alert(id=..., **fields) followed by __post_init__; escalation_level is 0
\* unless the **kwargs of create_alert name it.
NewAlert(id, args, t) ==
    LET a0 == [id |-> id, title |-> args.title, alert_type |-> args.alert_type,
               severity |-> args.severity, status |-> "new",
               source |-> args.source, rule_name |-> args.rule_name,
               context |-> args.context,
               created_at |-> t, updated_at |-> t,
               acknowledged_at |-> None, resolved_at |-> None, closed_at |-> None,
               acknowledged_by |-> None, resolved_by |-> None, closed_by |-> None,
               notes |-> <<>>, dedup_key |-> None, group_id |-> 0,
               escalation_level |-> IF "escalation_level" \in DOMAIN args
                                    THEN args.escalation_level ELSE 0,
               escalation_rules |-> <<>>]
    IN [a0 EXCEPT !.dedup_key = AlertDedupKey(a0)]

\* notes.append(f"[{ts}] {user}: {note}") when a note is given.
WithNote(a, t, who, note) ==
    IF note = None THEN a ELSE [a EXCEPT !.notes = Append(@, <<t, who, note>>)]

\* Alert.close without its status check.
CloseFromAnyStatus == AllStatuses

\* The statuses each Alert method accepts (its first "if").
AcknowledgeFrom == {"new"}
StartProgressFrom == {"new", "acknowledged"}
ResolveFrom == {"in_progress", "acknowledged"}
CloseFrom == {"resolved", "acknowledged"}

\* Alert.acknowledge / start_progress / resolve / close on an accepted status.
AlertAcknowledge(a, t, user, note) ==
    WithNote([a EXCEPT !.status = "acknowledged", !.acknowledged_at = t,
                       !.acknowledged_by = user, !.updated_at = t], t, user, note)

AlertStartProgress(a, t, user, note) ==
    WithNote([a EXCEPT !.status = "in_progress", !.updated_at = t], t, user, note)

AlertResolve(a, t, user, note) ==
    WithNote([a EXCEPT !.status = "resolved", !.resolved_at = t,
                       !.resolved_by = user, !.updated_at = t], t, user, note)

AlertClose(a, t, user, note) ==
    WithNote([a EXCEPT !.status = "closed", !.closed_at = t,
                       !.closed_by = user, !.updated_at = t], t, user, note)

\* Alert.escalate never raises.
EscalateNeverRaises(a) == FALSE

\* Alert.escalate raises when the level is at its maximum.
EscalateRaises(a) == a.escalation_level >= max_escalation_level

\* The status Alert.escalate leaves the alert in.
StatusAfterEscalate(a) == "escalated"

AlertEscalate(a, t, rule, note) ==
    WithNote([a EXCEPT !.escalation_level = @ + 1,
                       !.status = StatusAfterEscalate(a),
                       !.updated_at = t,
                       !.escalation_rules = Append(@, rule)], t, "ESCALATED", note)

\* Alert.can_group_with
CanGroupWith(a, b) ==
    /\ a.alert_type = b.alert_type
    /\ a.severity = b.severity
    /\ a.context.source_ip = b.context.source_ip
    /\ (IF a.created_at >= b.created_at THEN a.created_at - b.created_at
        ELSE b.created_at - a.created_at) < 3600

\* ------------------------------------------------------------------------
\* AlertManager
\* ------------------------------------------------------------------------
InitAlertManager ==
    /\ alerts = <<>>
    /\ alerts_by_dedup = <<>>
    /\ alerts_by_group = <<>>
    /\ next_id = 1
    /\ stats = [total_created |-> 0, total_acknowledged |-> 0, total_resolved |-> 0,
                total_closed |-> 0, total_escalated |-> 0,
                duplicates_prevented |-> 0, groups_created |-> 0]
    /\ lastCall = [op |-> "init", id |-> 0, args |-> None]
    /\ lastRet = None
    /\ lastAlert = 0

\* d[k] = v on a dict
DictPut(d, k, v) == [x \in DOMAIN d \cup {k} |-> IF x = k THEN v ELSE d[x]]

\* del d[k]
DictDel(d, k) == [x \in DOMAIN d \ {k} |-> d[x]]

RemoveAt(seq, i) == SubSeq(seq, 1, i - 1) \o SubSeq(seq, i + 1, Len(seq))

RECURSIVE FirstGroupFor(_, _, _)
\* The loop of _try_group_alert: the position of the first group, in dict
\* order, that is not empty and whose first alert can_group_with the new one
\* (0: no such group).
FirstGroupFor(a, groups, i) ==
    IF i > Len(groups) THEN 0
    ELSE IF /\ groups[i].alerts # <<>>
            /\ CanGroupWith(a, alerts[groups[i].alerts[1]])
         THEN i
         ELSE FirstGroupFor(a, groups, i + 1)

GroupPos(groups, gid) ==
    IF \E i \in 1..Len(groups) : groups[i].id = gid
    THEN CHOOSE i \in 1..Len(groups) : groups[i].id = gid
    ELSE 0

\* _try_group_alert(alert): <<group id of the alert, alerts_by_group after>>.
TryGroupAlert(a, groups) ==
    LET i == FirstGroupFor(a, groups, 1)
        gid == Len(groups) + 1
        at == GroupPos(groups, gid)
    IN IF i # 0
       THEN <<groups[i].id, [groups EXCEPT ![i].alerts = Append(@, a.id)]>>
       ELSE IF at # 0
            THEN <<gid, [groups EXCEPT ![at].alerts = <<a.id>>]>>
            ELSE <<gid, Append(groups, [id |-> gid, alerts |-> <<a.id>>])>>

\* The duplicate check at the head of create_alert.
IsDuplicate(args) ==
    /\ args.context.source_ip # None
    /\ ManagerDedupKey(args.title, args.source, args.rule_name, args.context)
           \in DOMAIN alerts_by_dedup

\* AlertManager.create_alert, its arguments drawn from argSet; at most maxNew
\* alerts are constructed.
CreateAlertFrom(argSet, maxNew) ==
    \E args \in argSet :
        /\ lastCall' = [op |-> "create_alert", id |-> 0, args |-> args]
        /\ lastRet' = "Alert"
        /\ IF IsDuplicate(args)
           THEN /\ stats.duplicates_prevented < MaxDuplicates
                /\ lastAlert' = alerts_by_dedup[
                       ManagerDedupKey(args.title, args.source, args.rule_name, args.context)]
                /\ stats' = [stats EXCEPT !.duplicates_prevented = @ + 1]
                /\ UNCHANGED <<alerts, alerts_by_dedup, alerts_by_group, next_id, now>>
           ELSE /\ next_id <= maxNew
                /\ LET a == NewAlert(next_id, args, now)
                       g == TryGroupAlert(a, alerts_by_group)
                   IN /\ alerts' = DictPut(alerts, a.id, [a EXCEPT !.group_id = g[1]])
                      /\ alerts_by_dedup' = DictPut(alerts_by_dedup, a.dedup_key, a.id)
                      /\ alerts_by_group' = g[2]
                      /\ stats' = [stats EXCEPT
                             !.total_created = @ + 1,
                             !.groups_created =
                                 IF FirstGroupFor(a, alerts_by_group, 1) = 0 THEN @ + 1 ELSE @]
                      /\ lastAlert' = a.id
                /\ next_id' = next_id + 1
                /\ UNCHANGED now

AlertIds == 1..MaxAlerts

NotesUsed ==
    LET RECURSIVE Sum(_)
        Sum(S) == IF S = {} THEN 0
                  ELSE LET x == CHOOSE y \in S : TRUE
                       IN Len(alerts[x].notes) + Sum(S \ {x})
    IN Sum(DOMAIN alerts)

NoteAllowed(note) == note = None \/ NotesUsed < MaxNotes

\* A manager operation's frame: everything but the alert, the statistics and
\* the record of the call.
ManagerFrame == UNCHANGED <<alerts_by_dedup, alerts_by_group, next_id, now, lastAlert>>

\* A manager wrapper whose Alert method assigns its fields before it checks the
\* status: the rejected call still returns False, with the alert changed.
ManagerOpAssignsFirst(op, id, raises, after, counter) ==
    /\ lastCall' = [op |-> op, id |-> id, args |-> None]
    /\ ManagerFrame
    /\ IF id \notin DOMAIN alerts
       THEN /\ lastRet' = "False"
            /\ UNCHANGED <<alerts, stats>>
       ELSE /\ lastRet' = IF raises THEN "False" ELSE "True"
            /\ alerts' = [alerts EXCEPT ![id] = after]
            /\ stats' = IF raises THEN stats ELSE [stats EXCEPT ![counter] = @ + 1]

\* The shape shared by acknowledge_alert, resolve_alert, close_alert and
\* escalate_alert: a missing alert or a ValueError gives False.
ManagerOp(op, id, raises, after, counter) ==
    /\ lastCall' = [op |-> op, id |-> id, args |-> None]
    /\ ManagerFrame
    /\ IF id \notin DOMAIN alerts \/ raises
       THEN /\ lastRet' = "False"
            /\ UNCHANGED <<alerts, stats>>
       ELSE /\ lastRet' = "True"
            /\ alerts' = [alerts EXCEPT ![id] = after]
            /\ stats' = [stats EXCEPT ![counter] = @ + 1]

\* AlertManager.acknowledge_alert
AcknowledgeAlertWith(noteSet) ==
    \E id \in AlertIds, user \in Users, note \in noteSet :
        /\ NoteAllowed(note)
        /\ ManagerOp("acknowledge", id,
                     id \in DOMAIN alerts /\ alerts[id].status \notin AcknowledgeFrom,
                     AlertAcknowledge(alerts[id], now, user, note),
                     "total_acknowledged")

\* AlertManager.resolve_alert
ResolveAlertWith(noteSet) ==
    \E id \in AlertIds, user \in Users, note \in noteSet :
        /\ NoteAllowed(note)
        /\ ManagerOp("resolve", id,
                     id \in DOMAIN alerts /\ alerts[id].status \notin ResolveFrom,
                     AlertResolve(alerts[id], now, user, note),
                     "total_resolved")

\* AlertManager.close_alert
CloseAlertWith(noteSet) ==
    \E id \in AlertIds, user \in Users, note \in noteSet :
        /\ NoteAllowed(note)
        /\ ManagerOp("close", id,
                     id \in DOMAIN alerts /\ alerts[id].status \notin CloseFrom,
                     AlertClose(alerts[id], now, user, note),
                     "total_closed")

\* AlertManager.escalate_alert
EscalateAlertWith(noteSet) ==
    \E id \in AlertIds, rule \in EscalationRuleArgs, note \in noteSet :
        /\ NoteAllowed(note)
        /\ ManagerOp("escalate", id,
                     id \in DOMAIN alerts /\ EscalateRaises(alerts[id]),
                     AlertEscalate(alerts[id], now, rule, note),
                     "total_escalated")

\* Alert.start_progress, called on a stored alert (the manager has no wrapper):
\* the ValueError reaches the caller.
StartProgressWith(noteSet) ==
    \E id \in DOMAIN alerts, user \in Users, note \in noteSet :
        /\ NoteAllowed(note)
        /\ lastCall' = [op |-> "start_progress", id |-> id, args |-> None]
        /\ ManagerFrame
        /\ UNCHANGED stats
        /\ IF alerts[id].status \notin StartProgressFrom
           THEN /\ lastRet' = "ValueError"
                /\ UNCHANGED alerts
           ELSE /\ lastRet' = "None"
                /\ alerts' = [alerts EXCEPT
                       ![id] = AlertStartProgress(alerts[id], now, user, note)]

\* The max_age_hours passed to cleanup_stale_alerts.
MaxAgeHours == {0, 1}

\* The alerts cleanup_stale_alerts selects, given the alerts and the time.
StaleAlerts(all, t, max_age_hours) ==
    LET cutoff_time == t - 3600 * max_age_hours
    IN {id \in DOMAIN all : /\ all[id].created_at < cutoff_time
                            /\ all[id].status \in {"resolved", "closed"}}

\* AlertManager._remove_alert on the three indexes; raised tells that
\* "del self.alerts_by_group[alert.group_id]" met a group that is not there.
RemoveAlert(st, alert_id) ==
    IF alert_id \notin DOMAIN st.alerts THEN st
    ELSE LET alert == st.alerts[alert_id]
             pos == GroupPos(st.groups, alert.group_id)
             group == IF pos = 0 THEN <<>>
                      ELSE SelectSeq(st.groups[pos].alerts, LAMBDA a : a # alert_id)
         IN [alerts |-> DictDel(st.alerts, alert_id),
             dedup |-> IF alert.dedup_key \in DOMAIN st.dedup
                       THEN DictDel(st.dedup, alert.dedup_key) ELSE st.dedup,
             groups |-> IF alert.group_id = 0 \/ pos = 0 THEN st.groups
                        ELSE IF group = <<>> THEN RemoveAt(st.groups, pos)
                        ELSE [st.groups EXCEPT ![pos].alerts = group],
             raised |-> alert.group_id # 0 /\ pos = 0]

RECURSIVE RemoveAlerts(_, _)
\* The loop of cleanup_stale_alerts over stale_alerts, in dict order (the
\* ids ascend); a KeyError ends it.
RemoveAlerts(st, ids) ==
    IF ids = {} \/ st.raised THEN st
    ELSE LET alert_id == CHOOSE i \in ids : \A j \in ids : i <= j
         IN RemoveAlerts(RemoveAlert(st, alert_id), ids \ {alert_id})

\* AlertManager.cleanup_stale_alerts
CleanupStaleAlerts ==
    \E max_age_hours \in MaxAgeHours :
        LET st == RemoveAlerts([alerts |-> alerts, dedup |-> alerts_by_dedup,
                                groups |-> alerts_by_group, raised |-> FALSE],
                               StaleAlerts(alerts, now, max_age_hours))
        IN /\ alerts' = st.alerts
           /\ alerts_by_dedup' = st.dedup
           /\ alerts_by_group' = st.groups
           /\ lastCall' = [op |-> "cleanup_stale_alerts", id |-> 0, args |-> max_age_hours]
           /\ lastRet' = IF st.raised THEN "KeyError" ELSE None
           /\ UNCHANGED <<next_id, stats, now, lastAlert>>
           /\ AlertsOnly

\* ---- escalation by age ----
\* The alerts the escalation checks are exercised on: one of each tier.
EscalationArgs ==
    [title : {<<"T1">>}, alert_type : AlertTypes,
     severity : {"medium", "high", "critical"},
     source : {"analyzer"}, rule_name : {"r1"},
     context : {AlertContext("10.0.0.5")}]

\* The instants, in seconds, at which the clock is read: around each age
\* the escalation rules name.
Instants == {0, 900, 901, 1801, 3601, 7201}

\* Alert.get_age().total_seconds()
GetAge(a, t) == t - a.created_at

\* Alert.requires_escalation
RequiresEscalation(a, t) ==
    IF a.status \in {"resolved", "closed"} THEN FALSE
    ELSE IF a.status = "new" /\ GetAge(a, t) > 3600 THEN TRUE
    ELSE IF a.status = "acknowledged" /\ GetAge(a, t) > 7200 THEN TRUE
    ELSE IF /\ a.severity \in {"high", "critical"}
            /\ a.status = "new" /\ GetAge(a, t) > 1800 THEN TRUE
    ELSE FALSE

\* AlertLifecycle.get_escalation_action
GetEscalationAction(a, t) ==
    IF ~RequiresEscalation(a, t) THEN None
    ELSE IF a.severity = "critical" THEN "immediate_escalation"
    ELSE IF a.severity = "high" THEN "high_priority_escalation"
    ELSE IF a.status = "new" /\ GetAge(a, t) > 3600 THEN "time_based_escalation"
    ELSE IF a.status = "acknowledged" /\ GetAge(a, t) > 7200
         THEN "acknowledgment_timeout_escalation"
    ELSE None

\* AlertLifecycle.apply_escalation: the rule and the note it passes to
\* Alert.escalate.
EscalationRuleOf(escalation_action) ==
    CASE escalation_action = "immediate_escalation" ->
            <<"immediate", "Critical alert requires immediate attention">>
      [] escalation_action = "high_priority_escalation" ->
            <<"high_priority", "High priority alert escalated">>
      [] escalation_action = "time_based_escalation" ->
            <<"time_based", "Alert escalated due to time threshold">>
      [] escalation_action = "acknowledgment_timeout_escalation" ->
            <<"acknowledgment_timeout", "Alert escalated due to acknowledgment timeout">>

RECURSIVE CheckEscalationsOver(_, _, _)
\* The loop of check_escalations over self.alerts.values(), in dict order;
\* a ValueError of Alert.escalate is not caught and ends it.
CheckEscalationsOver(st, ids, t) ==
    IF ids = {} \/ st.raised THEN st
    ELSE LET id == CHOOSE i \in ids : \A j \in ids : i <= j
             a == st.alerts[id]
             escalation_action == GetEscalationAction(a, t)
             next ==
                IF escalation_action = None THEN st
                ELSE IF EscalateRaises(a) THEN [st EXCEPT !.raised = TRUE]
                ELSE [st EXCEPT !.alerts[id] =
                         AlertEscalate(a, t, EscalationRuleOf(escalation_action)[1],
                                       EscalationRuleOf(escalation_action)[2])]
         IN CheckEscalationsOver(next, ids \ {id}, t)

\* AlertManager.check_escalations
CheckEscalations ==
    LET st == CheckEscalationsOver([alerts |-> alerts, raised |-> FALSE],
                                   DOMAIN alerts, now)
    IN /\ alerts' = st.alerts
       /\ lastCall' = [op |-> "check_escalations", id |-> 0, args |-> None]
       /\ lastRet' = IF st.raised THEN "ValueError" ELSE None
       /\ UNCHANGED <<alerts_by_dedup, alerts_by_group, next_id, stats, now, lastAlert>>
       /\ AlertsOnly

\* datetime.now() has moved on to a later instant; no call is in progress.
TimePassesTo(instants) ==
    \E t \in instants :
        /\ t > now
        /\ now' = t
        /\ lastCall' = [op |-> "tick", id |-> 0, args |-> None]
        /\ lastRet' = None
        /\ UNCHANGED <<alerts, alerts_by_dedup, alerts_by_group, next_id, stats,
                       lastAlert>>
        /\ AlertsOnly

TimePasses == TimePassesTo(Instants)

\* datetime.now() moves on between two calls; no call is in progress.
Tick ==
    /\ now < MaxTime
    /\ now' = now + 1
    /\ lastCall' = [op |-> "tick", id |-> 0, args |-> None]
    /\ lastRet' = None
    /\ UNCHANGED <<alerts, alerts_by_dedup, alerts_by_group, next_id, stats,
                   lastAlert>>
    /\ AlertsOnly

\* ------------------------------------------------------------------------
\* NotificationService
\* ------------------------------------------------------------------------
Channels == {"agent", "webhook"}

\* NotificationRecipient(id, type, address, enabled): a recipient is its type
\* and enabled flag, the fields delivery reads; its id is its position in
\* self.recipients.
RecipientKinds ==
    [type : Channels, enabled : {TRUE}] \cup [type : {"agent"}, enabled : {FALSE}]

\* The recipients argument of send_notification: a list of distinct recipient
\* ids (0 is an id no configured recipient has); the empty list also stands
\* for None, which "if recipients:" treats alike.
RecipientArgs ==
    {ids \in UNION {[1..n -> 0..MaxRecipients] : n \in 0..MaxRecipients} :
        \A i, j \in DOMAIN ids : i # j => ids[i] # ids[j]}

InitNotificationService ==
    /\ recipients = <<>>
    /\ notifications = <<>>
    /\ delivery_queue = <<>>
    /\ nstats = [sent |-> 0, delivered |-> 0, failed |-> 0, total |-> 0]
    /\ is_running = FALSE
    /\ workers = <<>>

\* How _deliver_to_recipient can end for a channel: _deliver_to_webhook raises
\* when aiohttp is missing, the request fails or the answer is >= 400;
\* _deliver_to_email raises when smtplib is missing; the other branches, the
\* final else (unknown channel) included, return.
DeliverOutcomes(type) ==
    IF type \in {"webhook", "email"} THEN {"returned", "raised"} ELSE {"returned"}

RECURSIVE SelectIds(_, _)
\* The loop of send_notification over the given ids: _get_recipient(id),
\* appended when found.
SelectIds(ids, cfg) ==
    IF ids = <<>> THEN <<>>
    ELSE (IF Head(ids) \in DOMAIN cfg THEN <<cfg[Head(ids)]>> ELSE <<>>)
         \o SelectIds(Tail(ids), cfg)

RECURSIVE EnabledOf(_, _)
\* [r for r in self.recipients if r.enabled]
EnabledOf(cfg, i) ==
    IF i > Len(cfg) THEN <<>>
    ELSE (IF cfg[i].enabled THEN <<cfg[i]>> ELSE <<>>) \o EnabledOf(cfg, i + 1)

\* notification.recipients as send_notification fills it.
NotificationRecipients(arg) ==
    IF arg # <<>>
    THEN SelectIds(arg, recipients)
    ELSE EnabledOf(recipients, 1)

\* NotificationService.add_recipient, while the service is being set up:
\* before it is started and before anything is sent.
AddRecipient ==
    \E kind \in RecipientKinds :
        /\ Len(recipients) < MaxRecipients
        /\ notifications = <<>> /\ ~is_running /\ workers = <<>>
        /\ recipients' = Append(recipients, kind)
        /\ UNCHANGED <<notifications, delivery_queue, nstats, is_running, workers>>
        /\ NotifyOnly

\* NotificationChannel
SupportedChannels == {"agent", "email", "webhook", "slack", "telegram", "log", "database"}

\* NotificationRecipient.type is a plain string: a recipient of a type that
\* is no NotificationChannel.
UnsupportedRecipientKinds == [type : {"pager"}, enabled : {TRUE, FALSE}]

\* NotificationService.add_recipient with such a recipient; it validates
\* nothing.
AddUnsupportedRecipient ==
    \E kind \in UnsupportedRecipientKinds :
        /\ Len(recipients) < MaxRecipients
        /\ notifications = <<>> /\ ~is_running /\ workers = <<>>
        /\ recipients' = Append(recipients, kind)
        /\ UNCHANGED <<notifications, delivery_queue, nstats, is_running, workers>>
        /\ NotifyOnly

\* NotificationService.send_notification
SendNotification ==
    \E arg \in RecipientArgs :
        /\ Len(notifications) < MaxNotifications
        /\ \A i \in DOMAIN arg : arg[i] <= Len(recipients)
        /\ notifications' = Append(notifications,
              [recipients |-> NotificationRecipients(arg), status |-> "pending",
               attempted |-> {}, results |-> <<>>, passed |-> FALSE])
        /\ delivery_queue' = Append(delivery_queue, Len(notifications) + 1)
        /\ nstats' = [nstats EXCEPT !.total = @ + 1]
        /\ UNCHANGED <<recipients, is_running, workers>>
        /\ NotifyOnly

\* NotificationService.start, while fewer than limit worker tasks exist.
NotificationStartUpTo(limit) ==
    /\ IF is_running
       THEN UNCHANGED <<is_running, workers>>
       ELSE /\ Len(workers) < limit
            /\ is_running' = TRUE
            /\ workers' = Append(workers, [pc |-> "created", n |-> 0, tasks |-> <<>>])
    /\ UNCHANGED <<recipients, notifications, delivery_queue, nstats>>
    /\ NotifyOnly

NotificationStart == NotificationStartUpTo(MaxWorkers)

\* The worker tasks that may exist when start() follows stop().
MaxRestartWorkers == 2

\* NotificationService.start, also after a stop().
NotificationRestart == NotificationStartUpTo(MaxRestartWorkers)

\* NotificationService.stop
NotificationStop ==
    /\ is_running
    /\ is_running' = FALSE
    /\ UNCHANGED <<recipients, notifications, delivery_queue, nstats, workers>>
    /\ NotifyOnly

\* The test of "while self.is_running" in _delivery_worker w: on to
\* delivery_queue.get(), or out of the loop, which ends the task.
LoopTest(w) ==
    IF is_running
    THEN [workers EXCEPT ![w] = [pc |-> "get", n |-> 0, tasks |-> <<>>]]
    ELSE RemoveAt(workers, w)

\* The worker task runs for the first time.
WorkerLoop ==
    \E w \in DOMAIN workers :
        /\ workers[w].pc = "created"
        /\ workers' = LoopTest(w)
        /\ UNCHANGED <<recipients, notifications, delivery_queue, nstats, is_running>>
        /\ NotifyOnly

\* wait_for(self.delivery_queue.get(), timeout=1.0) times out on an empty
\* queue and the loop goes round.
WorkerTimeout ==
    \E w \in DOMAIN workers :
        /\ workers[w].pc = "get"
        /\ delivery_queue = <<>>
        /\ workers' = LoopTest(w)
        /\ UNCHANGED <<recipients, notifications, delivery_queue, nstats, is_running>>
        /\ NotifyOnly

RECURSIVE DeliveryTasks(_, _)
\* The first loop of _deliver_notification: one task per enabled recipient,
\* in the order of notification.recipients.
DeliveryTasks(rs, i) ==
    IF i > Len(rs) THEN <<>>
    ELSE (IF rs[i].enabled THEN <<[pos |-> i, state |-> "pending"]>> ELSE <<>>)
         \o DeliveryTasks(rs, i + 1)

\* The worker takes a notification from the queue and _deliver_notification
\* creates its delivery tasks; with no task the pass is over at once and the
\* loop goes round.
WorkerGet ==
    \E w \in DOMAIN workers :
        /\ workers[w].pc = "get"
        /\ delivery_queue # <<>>
        /\ LET n == Head(delivery_queue)
               tasks == DeliveryTasks(notifications[n].recipients, 1)
           IN /\ delivery_queue' = Tail(delivery_queue)
              /\ IF tasks = <<>>
                 THEN /\ workers' = LoopTest(w)
                      /\ notifications' = [notifications EXCEPT ![n].passed = TRUE]
                 ELSE /\ workers' = [workers EXCEPT ![w] =
                                        [pc |-> "gather", n |-> n, tasks |-> tasks]]
                      /\ UNCHANGED notifications
        /\ UNCHANGED <<recipients, nstats, is_running>>
        /\ NotifyOnly

\* One delivery task runs _deliver_to_recipient to its end.
DeliverToRecipient ==
    \E w \in DOMAIN workers :
        /\ workers[w].pc = "gather"
        /\ \E t \in DOMAIN workers[w].tasks :
              LET n == workers[w].n
                  pos == workers[w].tasks[t].pos
              IN /\ workers[w].tasks[t].state = "pending"
                 /\ \E out \in DeliverOutcomes(notifications[n].recipients[pos].type) :
                       workers' = [workers EXCEPT ![w].tasks[t].state = out]
                 /\ notifications' = [notifications EXCEPT ![n].attempted = @ \cup {pos}]
        /\ UNCHANGED <<recipients, delivery_queue, nstats, is_running>>
        /\ NotifyOnly

\* asyncio.gather(*tasks) without return_exceptions: over at the first
\* exception.
GatherOverAtFirstException(tasks) ==
    \/ \A t \in DOMAIN tasks : tasks[t].state # "pending"
    \/ \E t \in DOMAIN tasks : tasks[t].state = "raised"

\* asyncio.gather(*tasks, return_exceptions=True) is over when every task is.
GatherOver(tasks) == \A t \in DOMAIN tasks : tasks[t].state # "pending"

RECURSIVE StatusAfterResults(_, _)
\* The loop over the results: each result assigns notification.status.
StatusAfterResults(status, results) ==
    IF results = <<>> THEN status
    ELSE StatusAfterResults(IF Head(results) = "raised" THEN "failed" ELSE "delivered",
                            Tail(results))

CountOf(results, x) == Cardinality({i \in DOMAIN results : results[i] = x})

\* The gather returns, _deliver_notification handles the results and the loop
\* goes round.
GatherDone ==
    \E w \in DOMAIN workers :
        /\ workers[w].pc = "gather"
        /\ GatherOver(workers[w].tasks)
        /\ LET n == workers[w].n
               results == [t \in DOMAIN workers[w].tasks |-> workers[w].tasks[t].state]
           IN /\ notifications' = [notifications EXCEPT
                     ![n].status = StatusAfterResults(@, results),
                     ![n].results = results,
                     ![n].passed = TRUE]
              /\ nstats' = [nstats EXCEPT
                     !.failed = @ + CountOf(results, "raised"),
                     !.delivered = @ + CountOf(results, "returned")]
        /\ workers' = LoopTest(w)
        /\ UNCHANGED <<recipients, delivery_queue, is_running>>
        /\ NotifyOnly

\* ------------------------------------------------------------------------
\* Rules and time windows
\* ------------------------------------------------------------------------
Digits == <<"0", "1", "2", "3", "4", "5", "6", "7", "8", "9">>
IsDigit(c) == \E d \in DOMAIN Digits : Digits[d] = c
DigitValue(c) == (CHOOSE d \in DOMAIN Digits : Digits[d] = c) - 1

\* str.lower() on one character, for the unit letters.
Lower(c) ==
    CASE c = "S" -> "s" [] c = "M" -> "m" [] c = "H" -> "h" [] c = "D" -> "d"
      [] c = "W" -> "w" [] c = "Y" -> "y"
      [] OTHER -> c

RECURSIVE LeadingDigits(_)
\* How many characters (\d+) takes at the start of str.
LeadingDigits(str) ==
    IF str # <<>> /\ IsDigit(Head(str)) THEN 1 + LeadingDigits(Tail(str)) ELSE 0

RECURSIVE LeadingSpaces(_)
LeadingSpaces(str) ==
    IF str # <<>> /\ Head(str) = " " THEN 1 + LeadingSpaces(Tail(str)) ELSE 0

RECURSIVE IntOf(_)
\* int(digits)
IntOf(digits) ==
    IF digits = <<>> THEN 0
    ELSE 10 * IntOf(SubSeq(digits, 1, Len(digits) - 1)) + DigitValue(digits[Len(digits)])

\* timedelta(<unit>=value) in seconds.
UnitSeconds(unit, value) ==
    CASE unit = "s" -> value
      [] unit = "m" -> 60 * value
      [] unit = "h" -> 3600 * value
      [] unit = "d" -> 86400 * value
      [] unit = "w" -> 604800 * value
      [] unit = "y" -> 86400 * 365 * value

\* The result that stands for the ValueError of Rule._parse_window.
ValueError == -1

\* Rule._parse_window: re.match(r"(\d+)\s*([smhdwy])", window_str.lower()),
\* a match at the start of the string; ValueError when there is none.
RuleParseWindow(window_str) ==
    LET low == [i \in DOMAIN window_str |-> Lower(window_str[i])]
        nd == LeadingDigits(low)
        rest == SubSeq(low, nd + 1, Len(low))
        ns == LeadingSpaces(rest)
        after == SubSeq(rest, ns + 1, Len(rest))
    IN IF nd >= 1 /\ after # <<>> /\ Head(after) \in {"s", "m", "h", "d", "w", "y"}
       THEN UnitSeconds(Head(after), IntOf(SubSeq(low, 1, nd)))
       ELSE ValueError

\* Rule.window_timedelta in seconds.  A rule without a window has the empty
\* string for it and gets 0, which "if not window" treats like None.
WindowTimedelta(rule) ==
    IF rule.window = <<>> THEN 0 ELSE RuleParseWindow(rule.window)

\* TimeWindow.parse_time_window: re.match(r"^(\d+)([smhd])$", ...), the whole
\* string; five minutes without a window or without a match.
ParseTimeWindow(window_str) ==
    IF window_str = <<>> THEN 300
    ELSE LET low == [i \in DOMAIN window_str |-> Lower(window_str[i])]
             nd == LeadingDigits(low)
         IN IF nd >= 1 /\ Len(low) = nd + 1 /\ low[nd + 1] \in {"s", "m", "h", "d"}
            THEN UnitSeconds(low[nd + 1], IntOf(SubSeq(low, 1, nd)))
            ELSE 300

\* TimeWindow.get_window_start
GetWindowStart(window_str, reference_time) ==
    reference_time - ParseTimeWindow(window_str)

\* TimeWindow.is_in_window
IsInWindow(event_time, window_str, reference_time) ==
    /\ GetWindowStart(window_str, reference_time) <= event_time
    /\ event_time <= reference_time

\* Rule._get_field_value / RuleEngine._get_field_value on a flat event.
GetFieldValue(event, field) ==
    IF field \in DOMAIN event THEN event[field] ELSE None

\* A Python int and a Python str as the value of an event field or of a
\* match.  The field event_type and src_ip hold plain strings.
IntValue(n) == [type |-> "int", int |-> n, str |-> <<>>]
StrValue(s) == [type |-> "str", int |-> 0, str |-> s]

\* The characters of the strings and patterns in use, in code point order.
CodePoints == <<"(", ")", "0", "1", "2", "3", "4", "5", "6", "7", "8", "9",
                "a", "b", "x">>
Ord(c) == CHOOSE i \in DOMAIN CodePoints : CodePoints[i] = c

RECURSIVE StrGreater(_, _)
\* str > str
StrGreater(a, b) ==
    IF a = <<>> THEN FALSE
    ELSE IF b = <<>> THEN TRUE
    ELSE IF Head(a) # Head(b) THEN Ord(Head(a)) > Ord(Head(b))
    ELSE StrGreater(Tail(a), Tail(b))

\* field_value > match.value on ints and strs: TypeError between an int and
\* a str.
PyGreater(a, b) ==
    CASE a.type = "int" /\ b.type = "int" -> IF a.int > b.int THEN "True" ELSE "False"
      [] a.type = "str" /\ b.type = "str" ->
            IF StrGreater(a.str, b.str) THEN "True" ELSE "False"
      [] OTHER -> "TypeError"

RECURSIVE ParenDepth(_, _)
\* The open groups after pattern; -1 once a ")" closes no group.
ParenDepth(pattern, depth) ==
    IF pattern = <<>> THEN depth
    ELSE IF Head(pattern) = "(" THEN ParenDepth(Tail(pattern), depth + 1)
    ELSE IF Head(pattern) = ")"
         THEN (IF depth = 0 THEN -1 ELSE ParenDepth(Tail(pattern), depth - 1))
    ELSE ParenDepth(Tail(pattern), depth)

\* re.compile of a pattern of letters, digits and groups: re.error for an
\* unbalanced parenthesis.
ReCompiles(pattern) == ParenDepth(pattern, 0) = 0

\* re.search of such a pattern: its letters and digits somewhere in string.
ReSearch(pattern, string) ==
    LET literal == SelectSeq(pattern, LAMBDA c : c \notin {"(", ")"})
    IN \E i \in 0..(Len(string) - Len(literal)) :
          SubSeq(string, i + 1, i + Len(literal)) = literal

\* Rule._evaluate_match: what it returns ("True", "False") or raises.  The
\* comparisons and re.search stand in no try block.
RuleEvaluateMatch(event, match) ==
    CASE match.operator = "exists" ->
            IF match.field \in DOMAIN event THEN "True" ELSE "False"
      [] match.operator # "exists" /\ match.field \notin DOMAIN event -> "False"
      [] match.operator = "eq" /\ match.field \in DOMAIN event ->
            IF event[match.field] = match.value THEN "True" ELSE "False"
      [] match.operator = "gt" /\ match.field \in DOMAIN event ->
            PyGreater(event[match.field], match.value)
      [] match.operator = "regex" /\ match.field \in DOMAIN event ->
            IF ~ReCompiles(match.value) THEN "re.error"
            ELSE IF ReSearch(match.value, event[match.field]) THEN "True" ELSE "False"
      [] OTHER -> "False"

\* Rule._evaluate_match returns True.
EvaluateMatch(event, match) == RuleEvaluateMatch(event, match) = "True"

\* Rule.is_active
IsActive(rule) == rule.enabled /\ rule.status = "active"

\* Rule.matches_event returns True.
MatchesEvent(rule, event) ==
    /\ IsActive(rule)
    /\ \A m \in DOMAIN rule.matches : EvaluateMatch(event, rule.matches[m])
    /\ \A c \in DOMAIN rule.conditions :
          /\ rule.conditions[c].field \in DOMAIN event
          /\ event[rule.conditions[c].field] = rule.conditions[c].value

\* Rule.matches_event raises: the loop over the matches reaches one that
\* raises before one that is false.
MatchesEventRaises(rule, event) ==
    /\ IsActive(rule)
    /\ \E m \in DOMAIN rule.matches :
          /\ RuleEvaluateMatch(event, rule.matches[m]) \notin {"True", "False"}
          /\ \A k \in 1..(m - 1) : EvaluateMatch(event, rule.matches[k])

\* float(value): ValueError for a str that is no number (the strs in use
\* are digits or letters).
FloatRaises(value) ==
    value.type = "str" /\ (value.str = <<>> \/ \E i \in DOMAIN value.str : ~IsDigit(value.str[i]))
FloatOf(value) == IF value.type = "int" THEN value.int ELSE IntOf(value.str)

\* EventMatcher._apply_operator: the numeric comparison and re.search stand
\* in try blocks that return False.
ApplyOperator(field_value, operator, value) ==
    CASE operator = "eq" -> IF field_value = value THEN "True" ELSE "False"
      [] operator = "gt" ->
            IF FloatRaises(field_value) \/ FloatRaises(value) THEN "False"
            ELSE IF FloatOf(field_value) > FloatOf(value) THEN "True" ELSE "False"
      [] operator = "regex" ->
            IF ~ReCompiles(value) THEN "False"
            ELSE IF ReSearch(value, field_value) THEN "True" ELSE "False"
      [] OTHER -> "False"

\* A rule as Rule.from_dict builds it from a rule file.  A rule without window,
\* threshold or group_by has <<>>, 0 and <<>> there, which the code's truth
\* tests treat like None.
MakeRule(name, type, event_type, window, threshold, group_by) ==
    [name |-> name, type |-> type, status |-> "active", enabled |-> TRUE,
     matches |-> <<[field |-> "event_type", operator |-> "eq", value |-> event_type]>>,
     conditions |-> <<>>,
     window |-> window, threshold |-> threshold, group_by |-> group_by,
     dedup_key |-> <<>>,
     actions |-> <<>>]

\* The rule with the actions its definition lists (RuleAction objects).
WithActions(rule, actions) == [rule EXCEPT !.actions = actions]

\* The rule with the matches its definition lists.
WithMatches(rule, matches) == [rule EXCEPT !.matches = matches]

\* The rule with the conditions its definition lists, compared for equality.
WithConditions(rule, conditions) == [rule EXCEPT !.conditions = conditions]

\* The rule files: a threshold rule named "a" and one named "ab", and what
\* the directory holds after an edit.
RuleA == WithActions(MakeRule(<<"a">>, "threshold", "scan", <<"1", "s">>, 2, <<"src_ip">>),
                     <<[type |-> "alert"]>>)
RuleAB == MakeRule(<<"a", "b">>, "threshold", "login", <<"2", "s">>, 3, <<"src_ip">>)
RuleI == MakeRule(<<"i">>, "immediate", "scan", <<>>, 0, <<>>)

RuleFiles == << <<RuleA, RuleAB>>, <<RuleI, RuleAB>> >>

\* The rule types RuleType(data['type']) accepts.
RuleTypes == {"immediate", "threshold", "correlation", "baseline", "anomaly"}

\* Rule.from_dict and Rule.__post_init__ raise ValueError for a type that is
\* no RuleType and for a threshold rule without window or threshold.
FromDictRaises(data) ==
    \/ data.type \notin RuleTypes
    \/ data.type = "threshold" /\ (data.window = <<>> \/ data.threshold = 0)
    \/ data.type = "correlation" /\ data.conditions = <<>>

\* A threshold rule whose definition lacks the window.
RuleNoWindow == MakeRule(<<"n">>, "threshold", "scan", <<>>, 2, <<"src_ip">>)

\* What the rules directory can hold when it is read: its files in glob
\* order, each one parseable (ok) or not, with the rule definitions in it.
RuleDirectories ==
    << << [ok |-> TRUE, rules |-> RuleFiles[1]] >>,
       << [ok |-> TRUE, rules |-> RuleFiles[2]] >>,
       << [ok |-> TRUE, rules |-> <<RuleI, RuleNoWindow>>] >>,
       << [ok |-> FALSE, rules |-> <<>>], [ok |-> TRUE, rules |-> <<RuleAB>>] >> >>

\* A threshold rule that compares the field bytes with a number, an
\* immediate rule whose regex does not compile, a threshold rule whose window
\* has no unit of time, and a correlation rule.
RuleGt ==
    WithMatches(MakeRule(<<"g">>, "threshold", "scan", <<"1", "s">>, 2, <<"src_ip">>),
                <<[field |-> "event_type", operator |-> "eq", value |-> "scan"],
                  [field |-> "bytes", operator |-> "gt", value |-> IntValue(5)]>>)
RuleRegex ==
    WithMatches(MakeRule(<<"x">>, "immediate", "scan", <<>>, 0, <<>>),
                <<[field |-> "user", operator |-> "regex", value |-> <<"(">>]>>)
RuleBadWindow == MakeRule(<<"w">>, "threshold", "login", <<"5", "x">>, 2, <<"src_ip">>)
RuleC ==
    WithConditions(MakeRule(<<"c">>, "correlation", "scan", <<>>, 0, <<>>),
                   <<[field |-> "event_type", value |-> "scan"]>>)

\* An immediate rule with an alert action.
RuleAlert ==
    WithActions(MakeRule(<<"k">>, "immediate", "scan", <<>>, 0, <<>>), <<[type |-> "alert"]>>)

\* A rules directory that holds these rules.
FaultyRuleDirectories ==
    << << [ok |-> TRUE,
           rules |-> <<RuleRegex, RuleI, RuleAlert, RuleBadWindow, RuleGt, RuleA,
                       RuleC>>] >> >>

RECURSIVE LoadRulesFromDirectory(_)
\* RuleEngine._load_rules_from_directory: a file that cannot be parsed and a
\* definition from_dict rejects are logged and skipped.
LoadRulesFromDirectory(directory) ==
    IF directory = <<>> THEN <<>>
    ELSE (IF Head(directory).ok
          THEN SelectSeq(Head(directory).rules, LAMBDA data : ~FromDictRaises(data))
          ELSE <<>>)
         \o LoadRulesFromDirectory(Tail(directory))

RECURSIVE LoadErrors(_)
\* The self.logger.error calls of _load_rules_from_directory.
LoadErrors(directory) ==
    IF directory = <<>> THEN 0
    ELSE (IF Head(directory).ok
          THEN Len(SelectSeq(Head(directory).rules, LAMBDA data : FromDictRaises(data)))
          ELSE 1)
         + LoadErrors(Tail(directory))

\* RuleSet.get_rules_by_type
RECURSIVE RulesByType(_, _)
RulesByType(rules, type) ==
    IF rules = <<>> THEN <<>>
    ELSE (IF Head(rules).type = type THEN <<Head(rules)>> ELSE <<>>)
         \o RulesByType(Tail(rules), type)

Events == [event_type : {"scan", "login"}, src_ip : {"h1"}]

\* Events with the fields bytes and user; bytes holds a number or a word, and
\* one event has no src_ip.
FieldEvents ==
    {[event_type |-> "scan", src_ip |-> "h1", bytes |-> IntValue(7), user |-> <<"a">>],
     [event_type |-> "scan", src_ip |-> "h1", bytes |-> StrValue(<<"x">>),
      user |-> <<"a">>],
     [event_type |-> "scan", bytes |-> IntValue(7), user |-> <<"b">>],
     [event_type |-> "login", src_ip |-> "h1", bytes |-> IntValue(3), user |-> <<"b">>]}

\* ------------------------------------------------------------------------
\* RuleEngine: threshold cache and threshold sweep
\* ------------------------------------------------------------------------
InitRuleEngine ==
    /\ rule_set = [gen |-> 0, rules |-> RuleFiles[1]]
    /\ threshold_cache = <<>>
    /\ estats = [events_processed |-> 0, rules_triggered |-> 0, alerts_created |-> 0]
    /\ lastSweep = [n |-> 0, t |-> 0, checks |-> <<>>]
    /\ load_errors = 0
    /\ lastProcess = [n |-> 0, event |-> [event_type |-> None], results |-> <<>>,
                      errors |-> <<>>, admitted |-> <<>>, raised |-> FALSE]
    /\ rule_correlation_cache = <<>>

RECURSIVE KeyParts(_, _)
\* ":".join(f"{field}={value}" for field in rule.group_by)
KeyParts(fields, event) ==
    IF fields = <<>> THEN <<>>
    ELSE <<Head(fields), "=", GetFieldValue(event, Head(fields))>>
         \o (IF Tail(fields) = <<>> THEN <<>> ELSE <<":">> \o KeyParts(Tail(fields), event))

\* RuleEngine._create_threshold_group_key
CreateThresholdGroupKey(rule, event) ==
    IF rule.group_by # <<>>
    THEN rule.name \o <<":">> \o KeyParts(rule.group_by, event)
    ELSE rule.name

\* str.startswith
StartsWith(str, prefix) ==
    Len(str) >= Len(prefix) /\ SubSeq(str, 1, Len(prefix)) = prefix

BucketPos(cache, key) ==
    IF \E i \in DOMAIN cache : cache[i].key = key
    THEN CHOOSE i \in DOMAIN cache : cache[i].key = key
    ELSE 0

\* self.threshold_cache[group_key].append(entry) on the defaultdict.
CacheAppend(cache, key, entry) ==
    LET i == BucketPos(cache, key)
    IN IF i = 0 THEN Append(cache, [key |-> key, entries |-> <<entry>>])
       ELSE [cache EXCEPT ![i].entries = Append(@, entry)]

RECURSIVE AddToThresholdCache(_, _, _, _)
\* RuleEngine._add_to_threshold_cache: the loop over the threshold rules,
\* which ends where matches_event raises.
AddToThresholdCache(cache, rules, event, t) ==
    IF rules = <<>> \/ MatchesEventRaises(Head(rules), event) THEN cache
    ELSE AddToThresholdCache(
            IF MatchesEvent(Head(rules), event)
            THEN CacheAppend(cache, CreateThresholdGroupKey(Head(rules), event),
                             [event |-> event, timestamp |-> t, rule |-> Head(rules).name])
            ELSE cache,
            Tail(rules), event, t)

\* "e['timestamp'] >= cutoff_time" taken strictly.
AfterCutoff(timestamp, cutoff_time) == timestamp > cutoff_time

\* e['timestamp'] >= cutoff_time
AtOrAfterCutoff(timestamp, cutoff_time) == timestamp >= cutoff_time

\* recent_events = [e for e in events if e['timestamp'] >= cutoff_time]
RecentEvents(entries, cutoff_time) ==
    SelectSeq(entries, LAMBDA e : AtOrAfterCutoff(e.timestamp, cutoff_time))

\* getattr on a Rule: the dataclass fields are the attributes it has.
HasAttr(rule, attr) == attr \in DOMAIN rule

\* RuleEngine._execute_alert_action up to the call of create_alert: the
\* arguments are evaluated first, and "rule.title or ..." and "rule.source"
\* raise AttributeError on a Rule without these attributes; the except
\* clause turns that into the status 'failed'.
AlertActionStatus(rule) ==
    IF HasAttr(rule, "title") /\ HasAttr(rule, "source") THEN "created" ELSE "failed"

\* RuleEngine._execute_action: the status of the action's result, for the
\* action types of the rule files (none of them sends a notification).
ActionStatus(action, rule) ==
    CASE action.type = "alert" -> AlertActionStatus(rule)
      [] action.type = "log" -> "logged"
      [] action.type = "script" -> "no_script_path"
      [] OTHER -> "unknown"

\* RuleEngine._execute_rule: result['actions_executed'], by status.
ExecuteRule(rule) ==
    [a \in DOMAIN rule.actions |-> ActionStatus(rule.actions[a], rule)]

\* How many alert actions of the statuses went through: self.stats['alerts_created'].
AlertsCreated(statuses) ==
    Cardinality({a \in DOMAIN statuses : statuses[a] = "created"})

RECURSIVE ImmediateAlertsCreated(_, _)
\* The alert actions that go through while _process_immediate_rules runs.
ImmediateAlertsCreated(rules, event) ==
    IF rules = <<>> THEN 0
    ELSE (IF Head(rules).type = "immediate" /\ MatchesEvent(Head(rules), event)
          THEN AlertsCreated(ExecuteRule(Head(rules))) ELSE 0)
         + ImmediateAlertsCreated(Tail(rules), event)

RECURSIVE SweepAlertsCreated(_)
\* The alert actions that go through during one pass of the sweep.
SweepAlertsCreated(checks) ==
    IF checks = <<>> THEN 0
    ELSE AlertsCreated(Head(checks).actions) + SweepAlertsCreated(Tail(checks))

RECURSIVE CheckThresholdRule(_, _, _)
\* RuleEngine._check_threshold_rule: the loop over the groups of the cache.
\* A check is the group the rule looked at, the entries it counted and
\* whether it went on to _execute_threshold_rule.
CheckThresholdRule(rule, cache, t) ==
    LET window == WindowTimedelta(rule)
    IN IF window = 0 \/ window = ValueError \/ cache = <<>> THEN <<>>
       ELSE (IF StartsWith(Head(cache).key, rule.name)
             THEN LET recent == RecentEvents(Head(cache).entries, t - window)
                  IN <<[rule |-> rule.name, key |-> Head(cache).key,
                        recent |-> recent,
                        fired |-> Len(recent) >= rule.threshold,
                        actions |-> IF Len(recent) >= rule.threshold
                                    THEN ExecuteRule(rule) ELSE <<>>]>>
             ELSE <<>>)
            \o CheckThresholdRule(rule, Tail(cache), t)

RECURSIVE SweepChecks(_, _, _)
\* The loop of _threshold_processor over the threshold rules.
SweepChecks(rules, cache, t) ==
    IF rules = <<>> THEN <<>>
    ELSE CheckThresholdRule(Head(rules), cache, t) \o SweepChecks(Tail(rules), cache, t)

\* config['max_correlation_events'] and AnalyzerConfig.max_correlation_events,
\* which the configuration sets (1000 when it does not).
max_correlation_events == 1

\* Keeping the first entries of an overfull buffer.
KeepFirst(list, n) == IF Len(list) > n THEN SubSeq(list, 1, n) ELSE list

\* if len(list) > n: list = list[-n:]
KeepLast(list, n) ==
    IF Len(list) > n THEN SubSeq(list, Len(list) - n + 1, Len(list)) ELSE list

\* f"{rule.name}:{event.get('src_ip', 'unknown')}"
CorrelationKey(rule, event) ==
    rule.name \o <<":", IF "src_ip" \in DOMAIN event THEN event.src_ip ELSE "unknown">>

\* self.correlation_cache[correlation_key].append(entry) and the cut to the
\* last max_correlation_events entries.
CorrelationCacheAppend(cache, key, entry) ==
    LET i == BucketPos(cache, key)
    IN IF i = 0
       THEN Append(cache, [key |-> key,
                           entries |-> KeepLast(<<entry>>, max_correlation_events)])
       ELSE [cache EXCEPT
                ![i].entries = KeepLast(Append(@, entry), max_correlation_events)]

RECURSIVE AddToCorrelationCache(_, _, _, _)
\* RuleEngine._add_to_correlation_cache: the loop over the correlation rules,
\* which ends where matches_event raises.
AddToCorrelationCache(cache, rules, event, t) ==
    IF rules = <<>> \/ MatchesEventRaises(Head(rules), event) THEN cache
    ELSE AddToCorrelationCache(
            IF MatchesEvent(Head(rules), event)
            THEN CorrelationCacheAppend(cache, CorrelationKey(Head(rules), event),
                                        [event |-> event, timestamp |-> t,
                                         rule |-> Head(rules).name])
            ELSE cache,
            Tail(rules), event, t)

\* matches_event raises for one of the rules of a loop without try block.
LoopRaises(rules, event) == \E r \in DOMAIN rules : MatchesEventRaises(rules[r], event)

\* The rule whose matches_event ended such a loop.
LoopRaiser(rules, event) ==
    IF LoopRaises(rules, event)
    THEN <<rules[CHOOSE r \in DOMAIN rules :
                    /\ MatchesEventRaises(rules[r], event)
                    /\ \A k \in 1..(r - 1) : ~MatchesEventRaises(rules[k], event)].name>>
    ELSE <<>>

\* The rules of such a loop it got to and that matched the event.
LoopAdmitted(rules, event) ==
    LET reached == {r \in DOMAIN rules :
                       \A k \in 1..r : ~MatchesEventRaises(rules[k], event)}
    IN SelectSeq([r \in DOMAIN rules |->
                     IF r \in reached /\ MatchesEvent(rules[r], event)
                     THEN rules[r].name ELSE <<>>],
                 LAMBDA name : name # <<>>)

\* The immediate rules that matched the event, each with a result.
ImmediateResults(rules, event) ==
    LET names == [r \in DOMAIN rules |->
                     IF MatchesEvent(rules[r], event) THEN rules[r].name ELSE <<>>]
    IN SelectSeq(names, LAMBDA name : name # <<>>)

\* The rules of _process_immediate_rules whose try block caught an error.
ImmediateErrors(rules, event) ==
    LET names == [r \in DOMAIN rules |->
                     IF MatchesEventRaises(rules[r], event) THEN rules[r].name ELSE <<>>]
    IN SelectSeq(names, LAMBDA name : name # <<>>)

\* RuleEngine.process_event of one event: the immediate rules, each in its
\* own try block; then the threshold cache, the correlation cache and the
\* counter of events in one try block, which an error of matches_event
\* leaves for the return of the results.
ProcessEventFrom(events) ==
    \E event \in events :
        LET immediate == RulesByType(rule_set.rules, "immediate")
            threshold == RulesByType(rule_set.rules, "threshold")
            correlation == RulesByType(rule_set.rules, "correlation")
            raised == LoopRaises(threshold, event) \/ LoopRaises(correlation, event)
        IN /\ lastProcess.n < MaxEvents
           /\ threshold_cache' = AddToThresholdCache(threshold_cache, threshold, event, now)
           /\ rule_correlation_cache' =
                 IF LoopRaises(threshold, event) THEN rule_correlation_cache
                 ELSE AddToCorrelationCache(rule_correlation_cache, correlation, event, now)
           /\ estats' = [estats EXCEPT
                 !.events_processed = IF raised THEN @ ELSE @ + 1,
                 !.rules_triggered = @ + Len(ImmediateResults(immediate, event)),
                 !.alerts_created = @ + ImmediateAlertsCreated(rule_set.rules, event)]
           /\ lastProcess' =
                 [n |-> lastProcess.n + 1, event |-> event,
                  results |-> ImmediateResults(immediate, event),
                  errors |-> ImmediateErrors(immediate, event)
                             \o LoopRaiser(IF LoopRaises(threshold, event)
                                           THEN threshold ELSE correlation, event),
                  admitted |-> LoopAdmitted(threshold, event)
                               \o (IF LoopRaises(threshold, event) THEN <<>>
                                   ELSE LoopAdmitted(correlation, event)),
                  raised |-> raised]
           /\ UNCHANGED <<now, rule_set, load_errors, lastSweep>>
           /\ RulesOnly

\* process_event of an event with the fields event_type and src_ip.
ProcessEvent == ProcessEventFrom(Events)

\* process_event of an event with further fields, or without src_ip.
ProcessFieldEvent == ProcessEventFrom(FieldEvents)

\* process_event of a scan event with or without src_ip, which the correlation
\* rule files under two keys.
ProcessKeyedEvent ==
    ProcessEventFrom({event \in FieldEvents :
                         event.event_type = "scan" /\ event.bytes = IntValue(7)})

\* One pass of _threshold_processor after its sleep.  No alert action of a
\* fired rule reaches alert_manager.create_alert (AlertActionStatus), so the
\* alert store stays as it is.
ThresholdSweep ==
    /\ lastSweep.n < MaxSweeps
    /\ LET checks == SweepChecks(RulesByType(rule_set.rules, "threshold"),
                                 threshold_cache, now)
       IN /\ lastSweep' = [n |-> lastSweep.n + 1, t |-> now, checks |-> checks]
          /\ estats' = [estats EXCEPT !.alerts_created = @ + SweepAlertsCreated(checks)]
    /\ UNCHANGED <<now, rule_set, load_errors, threshold_cache, procVars>>
    /\ RulesOnly

\* datetime.now() moves on under the rule engine.
ClockTick ==
    /\ now < MaxSweepTime
    /\ now' = now + 1
    /\ UNCHANGED ruleVars
    /\ RulesOnly

\* ------------------------------------------------------------------------
\* process_event coroutines and rule reloads on the asyncio event loop
\* ------------------------------------------------------------------------
\* The default of is_duplicate's ttl_seconds (300 in the source), in the
\* model's seconds.
ttl_seconds == 2

\* A piece of a dedup_key template or of a rendered key: a "{field}"
\* placeholder or plain text.
Placeholder(field) == [kind |-> "field", text |-> field]
Text(text) == [kind |-> "text", text |-> text]

\* AnalyzerCore._build_dedup_key: every "{field}" of a field the event has is
\* replaced by str(value); the other placeholders stay as they are.
BuildDedupKey(dedup_template, event) ==
    [p \in DOMAIN dedup_template |->
        IF dedup_template[p].kind = "field" /\ dedup_template[p].text \in DOMAIN event
        THEN Text(event[dedup_template[p].text])
        ELSE dedup_template[p]]

\* DeduplicationManager._cleanup_expired
CleanupExpired(cache, t) == SelectSeq(cache, LAMBDA e : ~(t - e.timestamp > e.ttl))

\* dedup_key in self._dedup_cache
InDedupCache(cache, dedup_key) == \E i \in DOMAIN cache : cache[i].key = dedup_key

\* DeduplicationManager.is_duplicate at time t: what it returns and the cache
\* it leaves.
DedupIsDuplicate(cache, dedup_key, ttl, t) ==
    LET live == CleanupExpired(cache, t)
    IN IF InDedupCache(live, dedup_key)
       THEN [ret |-> TRUE, cache |-> live]
       ELSE [ret |-> FALSE,
             cache |-> Append(live, [key |-> dedup_key, timestamp |-> t, ttl |-> ttl])]

\* The is_duplicate call written down: its key, time and answer, and for
\* every key the time and TTL the cache recorded for it last.
Recorded(d, dedup_key, ttl, t) ==
    LET r == DedupIsDuplicate(d.cache, dedup_key, ttl, t)
    IN [cache |-> r.cache,
        last |-> [n |-> d.last.n + 1, key |-> dedup_key, t |-> t, ret |-> r.ret,
                  recorded |->
                     IF r.ret THEN d.last.recorded
                     ELSE Append(SelectSeq(d.last.recorded, LAMBDA e : e.key # dedup_key),
                                 [key |-> dedup_key, timestamp |-> t, ttl |-> ttl])]]

\* AnalyzerConfig.correlation_window (3600 in the source, at least 60), in the
\* model's seconds.
correlation_window == 1

\* datetime.fromisoformat(e.get("timestamp", "")) raises ValueError for an
\* event without "timestamp".
FromIsoFormatRaises(e) == "timestamp" \notin DOMAIN e

RECURSIVE StrOfInt(_)
\* str(n) of a natural number: its decimal digits.
StrOfInt(n) ==
    IF n < 10 THEN <<Digits[n + 1]>> ELSE Append(StrOfInt(n \div 10), Digits[(n % 10) + 1])

\* AnalyzerCore._cleanup_old_data at time t: the event cache and the dedup
\* cache it leaves.  An event on which fromisoformat raises ends it in the
\* except clause before either is assigned.
CleanupOldData(c, cache, t) ==
    IF \E i \in DOMAIN c.event_cache : FromIsoFormatRaises(c.event_cache[i])
    THEN [core |-> c, dedup_cache |-> cache]
    ELSE [core |-> [c EXCEPT !.event_cache =
                      SelectSeq(@, LAMBDA e :
                         IsInWindow(e.timestamp,
                                    Append(StrOfInt(correlation_window * 2), "s"), t))],
          dedup_cache |-> <<>>]

\* AnalyzerCore.__init__
InitAnalyzerCore ==
    /\ core = [is_running |-> FALSE, processed_events_count |-> 0,
               triggered_rules_count |-> 0, event_cache |-> <<>>]
    /\ calls = <<>>
    /\ loop = 0
    /\ dedup_cache = <<>>
    /\ lastDup = [n |-> 0, key |-> <<>>, t |-> 0, ret |-> FALSE, recorded |-> <<>>]

\* Every await gives the event loop away.
MaySuspendAnywhere(point) == TRUE

\* Whether a coroutine can give the event loop away at an await.  The awaits
\* of process_event end in coroutines that run to their return
\* ("coroutine"), in delivery_queue.put on a queue without maxsize
\* ("queue_put"), or in "async with self.cache_lock", which waits when
\* _run_correlation holds the lock ("cache_lock").
MaySuspend(point) == point = "cache_lock"

\* Who runs after call i has passed the await: the loop is free again (0) or
\* call i goes on.
AfterAwait(i, point) == IF MaySuspend(point) THEN {0, i} ELSE {i}

\* The event loop can run a step of call i.
Runs(i) == loop \in {0, i}

\* EventMatcher._check_single_match
CheckSingleMatch(event, match) ==
    IF match.field \notin DOMAIN event THEN "False"
    ELSE ApplyOperator(event[match.field], match.operator, match.value)

\* EventMatcher.match_event
MatchEvent(event, rule_matches) ==
    \A m \in DOMAIN rule_matches : CheckSingleMatch(event, rule_matches[m]) = "True"

\* self.rule_set = RuleSet(loaded_rules): a new RuleSet object replaces the old
\* one in one assignment.  Calls that have begun and not returned are marked.
LoadRules(directory) ==
    /\ rule_set' = [gen |-> rule_set.gen + 1, rules |-> LoadRulesFromDirectory(directory)]
    /\ load_errors' = LoadErrors(directory)
    /\ calls' = [i \in DOMAIN calls |->
                    IF calls[i].pc \in {"start", "done"} THEN calls[i]
                    ELSE [calls[i] EXCEPT !.overlapped = TRUE]]

\* AnalyzerCore._execute_rule: _execute_action calls action.get on a
\* RuleAction, the AttributeError raised again in its except clause ends
\* _execute_rule with None; a rule without actions returns its result.
CoreExecuteRule(rule) == IF rule.actions # <<>> THEN None ELSE "result"

\* A process_event coroutine is scheduled: the HTTP endpoints, _event_processor
\* and the gather of process_events_batch.
CallProcessEventWith(kinds, events) ==
    \E kind \in kinds, event \in events :
        /\ loop = 0
        /\ Len(calls) < MaxCalls
        /\ calls' = Append(calls, [kind |-> kind, event |-> event, pc |-> "start",
                                   seen |-> <<>>, overlapped |-> FALSE,
                                   todo |-> <<>>, results |-> 0,
                                   evaluated |-> FALSE, buffered |-> FALSE])
        /\ UNCHANGED <<loop, core, rule_set, load_errors, threshold_cache, estats>>
        /\ LoopOnly

CallProcessEventOf(kinds) == CallProcessEventWith(kinds, Events)

CallProcessEvent == CallProcessEventOf({"engine", "core"})

\* AnalyzerCore.process_event is called.
CallCoreProcessEvent == CallProcessEventOf({"core"})

\* RuleEngine.process_event up to the return of _process_immediate_rules.
EngineProcessImmediateRules ==
    \E i \in DOMAIN calls :
        /\ Runs(i) /\ calls[i].kind = "engine" /\ calls[i].pc = "start"
        /\ estats' = [estats EXCEPT !.rules_triggered =
              @ + Cardinality({r \in DOMAIN rule_set.rules :
                                  /\ rule_set.rules[r].type = "immediate"
                                  /\ MatchesEvent(rule_set.rules[r], calls[i].event)}),
              !.alerts_created = @ + ImmediateAlertsCreated(rule_set.rules, calls[i].event)]
        /\ calls' = [calls EXCEPT ![i].pc = "threshold_cache",
                                  ![i].evaluated = TRUE,
                                  ![i].seen = Append(@, rule_set.gen)]
        /\ loop' \in AfterAwait(i, "queue_put")
        /\ UNCHANGED <<core, rule_set, load_errors, threshold_cache>>
        /\ LoopOnly

\* RuleEngine.process_event: await self._add_to_threshold_cache(event)
EngineAddToThresholdCache ==
    \E i \in DOMAIN calls :
        /\ Runs(i) /\ calls[i].kind = "engine" /\ calls[i].pc = "threshold_cache"
        /\ threshold_cache' =
              AddToThresholdCache(threshold_cache,
                                  RulesByType(rule_set.rules, "threshold"),
                                  calls[i].event, now)
        /\ calls' = [calls EXCEPT ![i].pc = "correlation_cache",
                                  ![i].buffered = TRUE,
                                  ![i].seen = Append(@, rule_set.gen)]
        /\ loop' \in AfterAwait(i, "coroutine")
        /\ UNCHANGED <<core, rule_set, load_errors, estats>>
        /\ LoopOnly

\* RuleEngine.process_event: await self._add_to_correlation_cache(event), the
\* statistics and the return.  The rule files hold no correlation rule, so
\* the loop over get_rules_by_type(CORRELATION) appends nothing.
EngineAddToCorrelationCache ==
    \E i \in DOMAIN calls :
        /\ Runs(i) /\ calls[i].kind = "engine" /\ calls[i].pc = "correlation_cache"
        /\ calls' = [calls EXCEPT ![i].pc = "done",
                                  ![i].seen = Append(@, rule_set.gen)]
        /\ estats' = [estats EXCEPT !.events_processed = @ + 1]
        /\ loop' = 0
        /\ UNCHANGED <<core, rule_set, load_errors, threshold_cache>>
        /\ LoopOnly

\* The first test of AnalyzerCore.process_event always lets the event through.
CoreNeverSkips == FALSE

\* AnalyzerCore.process_event: "if not self.is_running: return []"
CoreSkipsEvent == ~core.is_running

\* AnalyzerCore.process_event up to "async with self.cache_lock".
CoreEnter ==
    \E i \in DOMAIN calls :
        /\ Runs(i) /\ calls[i].kind = "core" /\ calls[i].pc = "start"
        /\ IF CoreSkipsEvent
           THEN /\ calls' = [calls EXCEPT ![i].pc = "done"]
                /\ loop' = 0
                /\ UNCHANGED core
           ELSE /\ calls' = [calls EXCEPT ![i].pc = "cache_lock"]
                /\ core' = [core EXCEPT !.processed_events_count = @ + 1]
                /\ loop' \in AfterAwait(i, "cache_lock")
        /\ UNCHANGED <<rule_set, load_errors, threshold_cache, estats>>
        /\ LoopOnly

\* AnalyzerCore.process_event: the append to the event cache under the
\* lock and the cut to the last max_correlation_events events; leaving the
\* lock does not give the event loop away.
CoreAppendToEventCache ==
    \E i \in DOMAIN calls :
        /\ Runs(i) /\ calls[i].kind = "core" /\ calls[i].pc = "cache_lock"
        /\ core' = [core EXCEPT !.event_cache =
                       KeepLast(Append(@, calls[i].event), max_correlation_events)]
        /\ calls' = [calls EXCEPT ![i].pc = "immediate", ![i].buffered = TRUE]
        /\ loop' = i
        /\ UNCHANGED <<rule_set, load_errors, threshold_cache, estats>>
        /\ LoopOnly

\* AnalyzerCore.process_event: await self._process_immediate_rules(event)
RECURSIVE CoreDedupChecks(_, _, _, _)
\* AnalyzerCore._process_immediate_rules: the is_duplicate calls of the loop,
\* one after each result of a rule with a dedup_key.
CoreDedupChecks(rules, event, d, t) ==
    IF rules = <<>> THEN d
    ELSE LET rule == Head(rules)
             asks == /\ rule.type = "immediate"
                     /\ MatchEvent(event, rule.matches)
                     /\ CoreExecuteRule(rule) # None
                     /\ rule.dedup_key # <<>>
         IN CoreDedupChecks(Tail(rules), event,
                            IF asks
                            THEN Recorded(d, BuildDedupKey(rule.dedup_key, event),
                                          ttl_seconds, t)
                            ELSE d,
                            t)

CoreProcessImmediateRules ==
    \E i \in DOMAIN calls :
        /\ Runs(i) /\ calls[i].kind = "core" /\ calls[i].pc = "immediate"
        /\ UNCHANGED core
        /\ LET d == CoreDedupChecks(rule_set.rules, calls[i].event,
                                    [cache |-> dedup_cache, last |-> lastDup], now)
           IN dedup_cache' = d.cache /\ lastDup' = d.last
        /\ calls' = [calls EXCEPT
              ![i].pc = "threshold",
              ![i].evaluated = TRUE,
              ![i].seen = Append(@, rule_set.gen),
              ![i].results = Cardinality({r \in DOMAIN rule_set.rules :
                                 /\ rule_set.rules[r].type = "immediate"
                                 /\ MatchEvent(calls[i].event, rule_set.rules[r].matches)
                                 /\ CoreExecuteRule(rule_set.rules[r]) # None})]
        /\ loop' \in AfterAwait(i, "coroutine")
        /\ UNCHANGED <<rule_set, load_errors, threshold_cache, estats>>
        /\ CallOnly

\* all_results = immediate_results + threshold_results, the counter, return.
CoreReturn(i, called) ==
    /\ calls' = [called EXCEPT ![i].pc = "done"]
    /\ core' = [core EXCEPT !.triggered_rules_count = @ + called[i].results]
    /\ loop' = 0

\* AnalyzerCore._process_threshold_rules up to the lock of the first
\* _check_threshold.
CoreProcessThresholdRules ==
    \E i \in DOMAIN calls :
        /\ Runs(i) /\ calls[i].kind = "core" /\ calls[i].pc = "threshold"
        /\ LET todo == SelectSeq(RulesByType(rule_set.rules, "threshold"),
                                 LAMBDA r : MatchEvent(calls[i].event, r.matches))
               called == [calls EXCEPT ![i].seen = Append(@, rule_set.gen),
                                       ![i].todo = todo]
           IN IF todo = <<>>
              THEN CoreReturn(i, called)
              ELSE /\ calls' = [called EXCEPT ![i].pc = "check_threshold"]
                   /\ loop' \in AfterAwait(i, "cache_lock")
                   /\ UNCHANGED core
        /\ UNCHANGED <<rule_set, load_errors, threshold_cache, estats>>
        /\ LoopOnly

\* AnalyzerCore._check_threshold under the lock, up to the lock of the next
\* rule or the return.  The events carry no "timestamp", fromisoformat("")
\* raises and _check_threshold returns False.
CoreCheckThreshold ==
    \E i \in DOMAIN calls :
        /\ Runs(i) /\ calls[i].kind = "core" /\ calls[i].pc = "check_threshold"
        /\ LET called == [calls EXCEPT ![i].todo = Tail(@)]
           IN IF called[i].todo = <<>>
              THEN CoreReturn(i, called)
              ELSE /\ calls' = called
                   /\ loop' \in AfterAwait(i, "cache_lock")
                   /\ UNCHANGED core
        /\ UNCHANGED <<rule_set, load_errors, threshold_cache, estats>>
        /\ LoopOnly

\* RuleEngine._load_rules run by _rule_reloader, reload_rules() or the reload
\* endpoint: synchronous, between two steps of the event loop.
ReloadRulesFrom(directories) ==
    \E d \in DOMAIN directories :
        /\ loop = 0
        /\ rule_set.gen < MaxReloads
        /\ LoadRules(directories[d])
        /\ UNCHANGED <<loop, core, threshold_cache, estats>>
        /\ LoopOnly

ReloadRules == ReloadRulesFrom(RuleDirectories)

\* _load_rules when the directory holds the rules with faults.
ReloadFaultyRules == ReloadRulesFrom(FaultyRuleDirectories)

MaxTasks == 6

\* A task asyncio.create_task made of one of the periodic loops.
PeriodicTask(owner, task_loop) == [owner |-> owner, loop |-> task_loop, pc |-> "created"]

\* AnalyzerCore.start
AnalyzerStartFrom(directories) ==
    \E d \in DOMAIN directories :
        /\ loop = 0
        /\ ~core.is_running
        /\ rule_set.gen < MaxReloads
        /\ Len(periodic_tasks) + 3 <= MaxTasks
        /\ core' = [core EXCEPT !.is_running = TRUE]
        /\ LoadRules(directories[d])
        /\ periodic_tasks' = periodic_tasks \o <<PeriodicTask("core", "rule_reload"),
                               PeriodicTask("core", "correlation"),
                               PeriodicTask("core", "cleanup")>>
        /\ UNCHANGED <<loop, threshold_cache, estats>>
        /\ UNCHANGED <<now, alertVars, notifVars, lastSweep, procVars, corrVars,
                       dedupVars, engine_running, lastTask>>

AnalyzerStart == AnalyzerStartFrom(RuleDirectories)

\* start() when the directory holds the rules with faults.
AnalyzerStartFaulty == AnalyzerStartFrom(FaultyRuleDirectories)

\* Rules that are not active: enabled is false, or the status is 'testing'.
RuleOff == [MakeRule(<<"o">>, "immediate", "scan", <<>>, 0, <<>>) EXCEPT !.enabled = FALSE]
RuleTesting ==
    [MakeRule(<<"t">>, "immediate", "scan", <<>>, 0, <<>>) EXCEPT !.status = "testing"]
RuleOffThreshold ==
    [MakeRule(<<"p">>, "threshold", "scan", <<"1", "s">>, 2, <<"src_ip">>)
        EXCEPT !.enabled = FALSE]

InactiveRuleDirectories ==
    << << [ok |-> TRUE, rules |-> <<RuleOff, RuleI, RuleTesting, RuleOffThreshold>>] >> >>

\* start() when the directory holds rules that are not active.
AnalyzerStartInactive == AnalyzerStartFrom(InactiveRuleDirectories)

\* The rule with a dedup_key template.
WithDedupKey(rule, dedup_template) == [rule EXCEPT !.dedup_key = dedup_template]

\* An immediate rule without actions, with dedup_key "d:{src_ip}".
RuleD ==
    WithDedupKey(MakeRule(<<"d">>, "immediate", "scan", <<>>, 0, <<>>),
                 <<Text("d:"), Placeholder("src_ip")>>)

DedupRuleDirectories == << << [ok |-> TRUE, rules |-> <<RuleD>>] >> >>

\* start() when the directory holds the rule with a dedup_key.
AnalyzerStartDedup == AnalyzerStartFrom(DedupRuleDirectories)

\* Events stamped with the time they are sent at.
TimedEvents(t) == [event_type : {"scan"}, src_ip : {"h1", "h2"}, timestamp : {t}]

\* AnalyzerCore.process_event is called with an event of this moment.
CallTimedProcessEvent == CallProcessEventWith({"core"}, TimedEvents(now))

\* ------------------------------------------------------------------------
\* stop() and the periodic loops
\* ------------------------------------------------------------------------
MaxTaskSweeps == 1

InitPeriodicTasks ==
    /\ periodic_tasks = <<>>
    /\ engine_running = FALSE
    /\ lastTask = [n |-> 0, owner |-> None, loop |-> None]

\* self.is_running of the object whose loop the task runs.
IsRunning(owner) == IF owner = "core" THEN core.is_running ELSE engine_running

\* The test of "while self.is_running" in task i: on to the sleep, or out of
\* the loop, which ends the task.
AfterLoopTest(i) ==
    IF IsRunning(periodic_tasks[i].owner) THEN [periodic_tasks EXCEPT ![i].pc = "sleep"]
    ELSE RemoveAt(periodic_tasks, i)

\* AnalyzerCore.stop: the flag, then a sleep of one second; no task is
\* cancelled or awaited.
AnalyzerStop ==
    /\ core.is_running
    /\ core' = [core EXCEPT !.is_running = FALSE]
    /\ UNCHANGED <<now, alertVars, notifVars, ruleVars, calls, loop, dedupVars, corrVars,
                   taskVars>>

RECURSIVE AfterStopSleep(_, _, _)
\* The periodic tasks left when the sleep of one second in stop() is over and
\* is_running of AnalyzerCore was clear all the while: a task of AnalyzerCore
\* that had not run yet, or whose own sleep ended within that second (the
\* positions in woken), made its loop test and ended.
AfterStopSleep(tasks, woken, i) ==
    IF i > Len(tasks) THEN <<>>
    ELSE (IF tasks[i].owner = "core" /\ (tasks[i].pc = "created" \/ i \in woken)
          THEN <<>> ELSE <<tasks[i]>>)
         \o AfterStopSleep(tasks, woken, i + 1)

\* AnalyzerCore.reload_config on a running analyzer: stop() with its sleep
\* of one second, the new configuration, then start(): the flag is cleared
\* and set again, the rules are loaded and three more tasks are created.  On
\* a stopped analyzer it only replaces the configuration.
ReloadConfig ==
    \E d \in DOMAIN RuleDirectories, woken \in SUBSET DOMAIN periodic_tasks :
        /\ loop = 0
        /\ core.is_running
        /\ rule_set.gen < MaxReloads
        /\ Len(AfterStopSleep(periodic_tasks, woken, 1)) + 3 <= MaxTasks
        /\ LoadRules(RuleDirectories[d])
        /\ periodic_tasks' = AfterStopSleep(periodic_tasks, woken, 1)
                               \o <<PeriodicTask("core", "rule_reload"),
                               PeriodicTask("core", "correlation"),
                               PeriodicTask("core", "cleanup")>>
        /\ UNCHANGED <<core, loop, threshold_cache, estats>>
        /\ UNCHANGED <<now, alertVars, notifVars, lastSweep, procVars, corrVars,
                       dedupVars, engine_running, lastTask>>

\* RuleEngine.start: the flag, notification_service.start() and the tasks
\* of the three periodic loops (auto_reload_rules is on by default).  The
\* task of _event_processor waits on the event queue and is not a periodic
\* task.
EngineStart ==
    /\ ~engine_running
    /\ Len(periodic_tasks) + 3 <= MaxTasks
    /\ engine_running' = TRUE
    /\ IF is_running
       THEN UNCHANGED <<is_running, workers>>
       ELSE /\ Len(workers) < MaxWorkers
            /\ is_running' = TRUE
            /\ workers' = Append(workers, [pc |-> "created", n |-> 0, tasks |-> <<>>])
    /\ periodic_tasks' = periodic_tasks \o <<PeriodicTask("engine", "threshold"),
                           PeriodicTask("engine", "correlation"),
                           PeriodicTask("engine", "rule_reload")>>
    /\ UNCHANGED <<now, alertVars, recipients, notifications, delivery_queue, nstats,
                   ruleVars, loopVars, corrVars, lastTask>>

\* RuleEngine.stop: the flag and notification_service.stop()
EngineStop ==
    /\ engine_running
    /\ engine_running' = FALSE
    /\ is_running' = FALSE
    /\ UNCHANGED <<now, alertVars, recipients, notifications, delivery_queue, nstats,
                   workers, ruleVars, loopVars, corrVars, periodic_tasks, lastTask>>

\* A periodic task runs for the first time: the loop test.
TaskRun ==
    \E i \in DOMAIN periodic_tasks :
        /\ periodic_tasks[i].pc = "created"
        /\ periodic_tasks' = AfterLoopTest(i)
        /\ UNCHANGED <<now, alertVars, notifVars, ruleVars, loopVars, corrVars,
                       engine_running, lastTask>>

\* A pass of task i began.
SweepBegins(i) ==
    /\ lastTask.n < MaxTaskSweeps
    /\ lastTask' = [n |-> lastTask.n + 1, owner |-> periodic_tasks[i].owner,
                    loop |-> periodic_tasks[i].loop]

\* The sleep of _rule_reload_loop, _correlation_loop or _cleanup_loop of
\* AnalyzerCore is over: the pass if is_running still holds, then the loop
\* test.  No process_event call is in progress, so cache_lock is free;
\* _run_correlation changes nothing the model holds (fewer than two cached
\* events, or events without "timestamp", on which fromisoformat raises).
CoreLoopWakeOf(loops) ==
    \E i \in DOMAIN periodic_tasks :
        /\ periodic_tasks[i].owner = "core" /\ periodic_tasks[i].pc = "sleep"
        /\ periodic_tasks[i].loop \in loops
        /\ loop = 0
        /\ IF core.is_running
           THEN /\ SweepBegins(i)
                /\ IF periodic_tasks[i].loop = "rule_reload"
                   THEN /\ rule_set.gen < MaxReloads
                        /\ \E d \in DOMAIN RuleDirectories : LoadRules(RuleDirectories[d])
                   ELSE UNCHANGED <<rule_set, load_errors, calls>>
                /\ IF periodic_tasks[i].loop = "cleanup"
                   THEN LET left == CleanupOldData(core, dedup_cache, now)
                        IN core' = left.core /\ dedup_cache' = left.dedup_cache
                   ELSE UNCHANGED <<core, dedup_cache>>
           ELSE UNCHANGED <<lastTask, rule_set, load_errors, calls, core, dedup_cache>>
        /\ periodic_tasks' = AfterLoopTest(i)
        /\ UNCHANGED <<now, alertVars, notifVars, threshold_cache, estats, lastSweep,
                       procVars, loop, lastDup, corrVars, engine_running>>

CoreLoopWake == CoreLoopWakeOf({"rule_reload", "correlation", "cleanup"})

\* The sleep of _cleanup_loop is over.
CoreCleanupWake == CoreLoopWakeOf({"cleanup"})

\* The sleep of _threshold_processor, _correlation_processor or
\* _rule_reloader of RuleEngine is over: the pass, then the loop test.  The
\* rule files hold no correlation rule, so _check_correlation_rules changes
\* nothing.
EngineLoopWake ==
    \E i \in DOMAIN periodic_tasks :
        /\ periodic_tasks[i].owner = "engine" /\ periodic_tasks[i].pc = "sleep"
        /\ loop = 0
        /\ SweepBegins(i)
        /\ CASE periodic_tasks[i].loop = "threshold" ->
                  /\ lastSweep.n < MaxSweeps
                  /\ LET checks == SweepChecks(RulesByType(rule_set.rules, "threshold"),
                                               threshold_cache, now)
                     IN /\ lastSweep' = [n |-> lastSweep.n + 1, t |-> now,
                                         checks |-> checks]
                        /\ estats' = [estats EXCEPT
                                         !.alerts_created = @ + SweepAlertsCreated(checks)]
                  /\ UNCHANGED <<rule_set, load_errors, calls>>
             [] periodic_tasks[i].loop = "rule_reload" ->
                  /\ rule_set.gen < MaxReloads
                  /\ \E d \in DOMAIN RuleDirectories : LoadRules(RuleDirectories[d])
                  /\ UNCHANGED <<lastSweep, estats>>
             [] OTHER -> UNCHANGED <<rule_set, load_errors, calls, lastSweep, estats>>
        /\ periodic_tasks' = AfterLoopTest(i)
        /\ UNCHANGED <<now, alertVars, notifVars, threshold_cache, procVars, core, loop,
                       dedupVars, corrVars, engine_running>>

\* ------------------------------------------------------------------------
\* CorrelationEngine (correlation_engine.py)
\* Confidences, thresholds and distances are counted in hundredths: 85
\* stands for 0.85.
\* ------------------------------------------------------------------------
MaxCorrEvents == 4
MaxCorrTime == 3
MaxRulesProcessed == 3

\* CorrelationRule, with the defaults of the dataclass where not given.
MakeCorrelationRule(name, correlation_type, min_events, time_window, fields, threshold) ==
    [name |-> name, correlation_type |-> correlation_type,
     min_events |-> min_events, max_events |-> 100,
     time_window |-> time_window, correlation_fields |-> fields,
     enabled |-> TRUE, confidence_threshold |-> threshold]

\* The rules add_correlation_rule is called with, in the order of the calls.
CorrelationRuleArgs ==
    <<MakeCorrelationRule("t90", "temporal", 2, 3600, <<>>, 90),
      MakeCorrelationRule("attr", "attribute", 1, 1, <<"src_ip">>, 50),
      MakeCorrelationRule("sp", "spatial", 1, 3600, <<>>, 70)>>

\* The events add_event is called with.
CorrEvents == {[event_type |-> "scan", src_ip |-> "h1"], [event_type |-> "scan"]}

\* CorrelationEngine.__init__: the rules directory does not exist, so no
\* rule is loaded.
InitCorrelationEngine ==
    /\ correlation_rules = <<>>
    /\ event_cache = <<>>
    /\ correlation_cache = <<>>
    /\ correlation_stats = [correlations_found |-> 0, rules_processed |-> 0,
                            events_analyzed |-> 0]
    /\ computed = <<>>

\* event.get(field, default)
EventGet(event, field, default) ==
    IF field \in DOMAIN event THEN event[field] ELSE default

\* CorrelationEngine._create_event_key
CreateEventKey(event) ==
    <<EventGet(event, "event_type", "unknown"), EventGet(event, "src_ip", "unknown"),
      EventGet(event, "dst_ip", "unknown")>>

\* The position of a key in a dict kept in insertion order (0: absent).
EntryPos(entries, key) ==
    IF \E i \in DOMAIN entries : entries[i].key = key
    THEN CHOOSE i \in DOMAIN entries : entries[i].key = key
    ELSE 0

\* defaultdict(list)[key].append(item) on a dict kept in insertion order.
EntryAppend(entries, key, item) ==
    LET pos == EntryPos(entries, key)
    IN IF pos = 0 THEN Append(entries, [key |-> key, events |-> <<item>>])
       ELSE [entries EXCEPT ![pos].events = Append(@, item)]

\* CorrelationEngine.add_correlation_rule
AddCorrelationRule ==
    LET rule == CorrelationRuleArgs[Len(correlation_rules) + 1]
    IN  /\ Len(correlation_rules) < Len(CorrelationRuleArgs)
        /\ correlation_rules' = Append(correlation_rules, rule)
        /\ computed' = <<>>
        /\ UNCHANGED <<now, event_cache, correlation_cache, correlation_stats>>
        /\ CorrelationOnly

\* CorrelationEngine.add_event
AddEvent ==
    \E event \in CorrEvents :
        /\ correlation_stats.events_analyzed < MaxCorrEvents
        /\ event_cache' = EntryAppend(event_cache, CreateEventKey(event),
                                      [event |-> event, timestamp |-> now])
        /\ correlation_stats' = [correlation_stats EXCEPT !.events_analyzed = @ + 1]
        /\ computed' = <<>>
        /\ UNCHANGED <<now, correlation_rules, correlation_cache>>
        /\ CorrelationOnly

RECURSIVE Sum(_)
\* sum(values)
Sum(values) == IF values = <<>> THEN 0 ELSE Head(values) + Sum(Tail(values))

\* The cached entries with e['timestamp'] >= cutoff_time.
RecentOf(events, cutoff_time) ==
    SelectSeq(events, LAMBDA e : e.timestamp >= cutoff_time)

RECURSIVE InsertByTimestamp(_, _)
\* The place sorted() gives an entry among entries already in order: after
\* those that are not later (the sort is stable).
InsertByTimestamp(sorted, e) ==
    IF sorted = <<>> THEN <<e>>
    ELSE IF Head(sorted).timestamp <= e.timestamp
         THEN <<Head(sorted)>> \o InsertByTimestamp(Tail(sorted), e)
         ELSE <<e>> \o sorted

RECURSIVE SortedByTimestamp(_)
\* sorted(events, key=lambda x: x['timestamp'])
SortedByTimestamp(events) ==
    IF events = <<>> THEN <<>>
    ELSE InsertByTimestamp(SortedByTimestamp(SubSeq(events, 1, Len(events) - 1)),
                           events[Len(events)])

\* The seconds between each entry and the one before it.
TimeIntervals(sorted_events) ==
    [i \in 1..(Len(sorted_events) - 1) |->
        sorted_events[i + 1].timestamp - sorted_events[i].timestamp]

\* CorrelationEngine._calculate_trend, as the sign of slope - 0.1 and of
\* slope + 0.1: slope = numerator / denominator with a positive denominator
\* for more than one value.
TrendPattern(values) ==
    LET n == Len(values)
        x_sum == Sum([i \in 1..n |-> i - 1])
        y_sum == Sum(values)
        xy_sum == Sum([i \in 1..n |-> (i - 1) * values[i]])
        x2_sum == Sum([i \in 1..n |-> (i - 1) * (i - 1)])
        numerator == n * xy_sum - x_sum * y_sum
        denominator == n * x2_sum - x_sum * x_sum
    IN IF 10 * numerator > denominator THEN "increasing_frequency"
       ELSE IF 10 * numerator < 0 - denominator THEN "decreasing_frequency"
       ELSE "stable_frequency"

\* CorrelationEngine._analyze_temporal_patterns. With n intervals of sum s
\* and sum of squares q, the mean is s / n and the variance (n*q - s*s) / n^2.
AnalyzeTemporalPatterns(time_intervals) ==
    IF time_intervals = <<>> THEN <<>>
    ELSE LET n == Len(time_intervals)
             s == Sum(time_intervals)
             q == Sum([i \in 1..n |-> time_intervals[i] * time_intervals[i]])
             v == n * q - s * s
             timing == IF 10 * v < n * s THEN "regular_timing"
                       ELSE IF v > 2 * n * s THEN "irregular_timing"
                       ELSE "moderate_timing"
         IN IF n > 2 THEN <<timing, TrendPattern(time_intervals)>> ELSE <<timing>>

\* pattern in patterns
HasPattern(patterns, pattern) == \E i \in DOMAIN patterns : patterns[i] = pattern

\* min(confidence, 1.0)
Min(a, b) == IF a <= b THEN a ELSE b

\* max(0.0, confidence)
Max(a, b) == IF a >= b THEN a ELSE b

\* CorrelationEngine._calculate_temporal_confidence
CalculateTemporalConfidence(time_intervals, patterns) ==
    IF time_intervals = <<>> THEN 0
    ELSE Min(50 + (IF HasPattern(patterns, "regular_timing") THEN 20 ELSE 0)
                + (IF HasPattern(patterns, "stable_frequency") THEN 15 ELSE 0)
                + (IF Len(time_intervals) > 10 THEN 10 ELSE 0), 100)

\* CorrelationEngine._calculate_spatial_distances: 0.1 for each event but one.
CalculateSpatialDistances(events) ==
    IF events = <<>> THEN <<>> ELSE [i \in 1..(Len(events) - 1) |-> 10]

\* CorrelationEngine._analyze_spatial_patterns: d < mean * 0.5 is
\* 2 * n * d < sum for n distances.
AnalyzeSpatialPatterns(distances) ==
    IF distances = <<>> THEN <<>>
    ELSE LET n == Len(distances)
             small_distances ==
                SelectSeq(distances, LAMBDA d : 2 * n * d < Sum(distances))
         IN IF 10 * Len(small_distances) > 7 * n THEN <<"clustered">>
            ELSE IF 10 * Len(small_distances) < 3 * n THEN <<"dispersed">>
            ELSE <<"mixed_distribution">>

\* CorrelationEngine._calculate_spatial_confidence
CalculateSpatialConfidence(distances, patterns) ==
    IF distances = <<>> THEN 0
    ELSE Min(50 + (IF HasPattern(patterns, "clustered") THEN 30
                   ELSE IF HasPattern(patterns, "mixed_distribution") THEN 15
                   ELSE 0)
                + (IF Len(distances) > 5 THEN 10 ELSE 0), 100)

\* CorrelationEngine._get_field_value for a path without dots.
CorrFieldValue(event, field_path) == EventGet(event, field_path, None)

RECURSIVE AnalyzeEventAttributes(_, _)
\* CorrelationEngine._analyze_event_attributes: for each field that has a
\* value in some event, how many values and how many different ones
\* (diversity is unique_count / total_count).
AnalyzeEventAttributes(events, fields) ==
    IF fields = <<>> THEN <<>>
    ELSE LET field == Head(fields)
             values == SelectSeq([i \in DOMAIN events |->
                                     CorrFieldValue(events[i].event, field)],
                                 LAMBDA value : value # None)
             rest == AnalyzeEventAttributes(events, Tail(fields))
         IN IF values = <<>> THEN rest
            ELSE <<[field |-> field,
                    unique_count |-> Cardinality({values[i] : i \in DOMAIN values}),
                    total_count |-> Len(values)]>> \o rest

RECURSIVE AttributeAdjustment(_)
\* The loop of _calculate_attribute_confidence: +0.1 for a diversity below
\* 0.3, -0.05 for one above 0.8.
AttributeAdjustment(attribute_analysis) ==
    IF attribute_analysis = <<>> THEN 0
    ELSE LET analysis == Head(attribute_analysis)
         IN (IF 10 * analysis.unique_count < 3 * analysis.total_count THEN 10
             ELSE IF 10 * analysis.unique_count > 8 * analysis.total_count THEN 0 - 5
             ELSE 0) + AttributeAdjustment(Tail(attribute_analysis))

\* CorrelationEngine._calculate_attribute_confidence
CalculateAttributeConfidence(attribute_analysis) ==
    IF attribute_analysis = <<>> THEN 0
    ELSE Max(0, Min(50 + AttributeAdjustment(attribute_analysis), 100))

\* CorrelationEngine._determine_correlation_strength
DetermineCorrelationStrength(confidence) ==
    IF confidence >= 90 THEN "very_strong"
    ELSE IF confidence >= 80 THEN "strong"
    ELSE IF confidence >= 60 THEN "moderate"
    ELSE "weak"

\* The CorrelationResult the _analyze_* functions build.
MakeCorrelationResult(rule, confidence, events, time_span, patterns) ==
    [rule_name |-> rule.name, correlation_type |-> rule.correlation_type,
     strength |-> DetermineCorrelationStrength(confidence),
     confidence |-> confidence, event_count |-> Len(events),
     time_span |-> time_span, patterns |-> patterns]

\* CorrelationEngine._analyze_temporal_correlation (None is <<>>)
AnalyzeTemporalCorrelation(rule, events) ==
    IF Len(events) < rule.min_events THEN <<>>
    ELSE LET sorted_events == SortedByTimestamp(events)
             time_intervals == TimeIntervals(sorted_events)
             patterns == AnalyzeTemporalPatterns(time_intervals)
         IN <<MakeCorrelationResult(rule,
                CalculateTemporalConfidence(time_intervals, patterns), events,
                sorted_events[Len(sorted_events)].timestamp - sorted_events[1].timestamp,
                patterns)>>

\* CorrelationEngine._analyze_spatial_correlation (None is <<>>)
AnalyzeSpatialCorrelation(rule, events) ==
    IF Len(events) < rule.min_events THEN <<>>
    ELSE LET distances == CalculateSpatialDistances(events)
             patterns == AnalyzeSpatialPatterns(distances)
         IN <<MakeCorrelationResult(rule,
                CalculateSpatialConfidence(distances, patterns), events, 0, patterns)>>

\* CorrelationEngine._analyze_attribute_correlation (None is <<>>); the
\* pattern tags of _extract_attribute_patterns, which no confidence reads,
\* are left out.
AnalyzeAttributeCorrelation(rule, events) ==
    IF Len(events) < rule.min_events THEN <<>>
    ELSE <<MakeCorrelationResult(rule,
              CalculateAttributeConfidence(
                  AnalyzeEventAttributes(events, rule.correlation_fields)),
              events, 0, <<>>)>>

\* Every confidence clears every threshold.
MeetsAnyThreshold(correlation_result, rule) == TRUE

\* correlation_result.confidence >= rule.confidence_threshold
MeetsThreshold(correlation_result, rule) ==
    correlation_result.confidence >= rule.confidence_threshold

\* rule.min_events <= len(events) <= rule.max_events
CountInBounds(rule, events) ==
    rule.min_events <= Len(events) /\ Len(events) <= rule.max_events

RECURSIVE TemporalResults(_, _, _)
\* The loop of _check_temporal_correlation over self.event_cache.items():
\* the result computed for each group whose recent events are within the
\* rule's count bounds.
TemporalResults(rule, entries, cutoff_time) ==
    IF entries = <<>> THEN <<>>
    ELSE LET recent_events == RecentOf(Head(entries).events, cutoff_time)
         IN (IF CountInBounds(rule, recent_events)
             THEN AnalyzeTemporalCorrelation(rule, recent_events)
             ELSE <<>>) \o TemporalResults(rule, Tail(entries), cutoff_time)

RECURSIVE AllRecent(_, _)
\* The recent events of every group of self.event_cache, in dict order.
AllRecent(entries, cutoff_time) ==
    IF entries = <<>> THEN <<>>
    ELSE RecentOf(Head(entries).events, cutoff_time)
            \o AllRecent(Tail(entries), cutoff_time)

\* CorrelationEngine._extract_location: always None.
ExtractLocation(event) == None

RECURSIVE AttributeKeyParts(_, _)
\* The "field=value" parts of _create_attribute_key.
AttributeKeyParts(event, fields) ==
    IF fields = <<>> THEN <<>>
    ELSE (IF CorrFieldValue(event, Head(fields)) # None
          THEN <<Head(fields), CorrFieldValue(event, Head(fields))>>
          ELSE <<>>) \o AttributeKeyParts(event, Tail(fields))

\* CorrelationEngine._create_attribute_key (None is <<>>: no fields or no
\* part)
CreateAttributeKey(event, fields) == AttributeKeyParts(event, fields)

RECURSIVE LocationGroups(_, _)
\* location_groups of _check_spatial_correlation: the recent events by
\* location, those without a location left out.
LocationGroups(groups, recent_events) ==
    IF recent_events = <<>> THEN groups
    ELSE LET location == ExtractLocation(Head(recent_events).event)
         IN LocationGroups(IF location # None
                           THEN EntryAppend(groups, location, Head(recent_events))
                           ELSE groups,
                           Tail(recent_events))

RECURSIVE AttributeGroups(_, _, _)
\* attribute_groups of _check_attribute_correlation: the recent events by
\* attribute key, those without a key left out.
AttributeGroups(groups, recent_events, fields) ==
    IF recent_events = <<>> THEN groups
    ELSE LET attribute_key == CreateAttributeKey(Head(recent_events).event, fields)
         IN AttributeGroups(IF attribute_key # <<>>
                            THEN EntryAppend(groups, attribute_key, Head(recent_events))
                            ELSE groups,
                            Tail(recent_events), fields)

RECURSIVE SpatialResults(_, _)
\* The second loop of _check_spatial_correlation.
SpatialResults(rule, groups) ==
    IF groups = <<>> THEN <<>>
    ELSE (IF CountInBounds(rule, Head(groups).events)
          THEN AnalyzeSpatialCorrelation(rule, Head(groups).events)
          ELSE <<>>) \o SpatialResults(rule, Tail(groups))

RECURSIVE AttributeResults(_, _)
\* The second loop of _check_attribute_correlation.
AttributeResults(rule, groups) ==
    IF groups = <<>> THEN <<>>
    ELSE (IF CountInBounds(rule, Head(groups).events)
          THEN AnalyzeAttributeCorrelation(rule, Head(groups).events)
          ELSE <<>>) \o AttributeResults(rule, Tail(groups))

\* CorrelationEngine._check_correlation_rule: every CorrelationResult the
\* check of one rule computes, in order.
CheckCorrelationRule(rule, entries, t) ==
    LET cutoff_time == t - rule.time_window
    IN CASE rule.correlation_type = "temporal" ->
                TemporalResults(rule, entries, cutoff_time)
         [] rule.correlation_type = "spatial" ->
                SpatialResults(rule, LocationGroups(<<>>, AllRecent(entries, cutoff_time)))
         [] rule.correlation_type = "attribute" ->
                AttributeResults(rule,
                    AttributeGroups(<<>>, AllRecent(entries, cutoff_time),
                                    rule.correlation_fields))
         [] OTHER -> <<>>

RECURSIVE SweepResults(_, _, _)
\* One pass of _correlation_processor over self.correlation_rules: what
\* each enabled rule computes, with the rule.
SweepResults(rules, entries, t) ==
    IF rules = <<>> THEN <<>>
    ELSE (IF Head(rules).enabled
          THEN LET results == CheckCorrelationRule(Head(rules), entries, t)
               IN [i \in DOMAIN results |-> [rule |-> Head(rules), result |-> results[i]]]
          ELSE <<>>) \o SweepResults(Tail(rules), entries, t)

\* One pass of CorrelationEngine._correlation_processor after its sleep;
\* _process_correlation_result stores each result that meets its rule's
\* threshold.
CorrelationSweep ==
    LET found == SweepResults(correlation_rules, event_cache, now)
        kept == SelectSeq(found, LAMBDA f : MeetsThreshold(f.result, f.rule))
        enabled == SelectSeq(correlation_rules, LAMBDA rule : rule.enabled)
    IN /\ correlation_rules # <<>>
       /\ correlation_stats.rules_processed < MaxRulesProcessed
       /\ computed' = [i \in DOMAIN found |-> found[i].result]
       /\ correlation_cache' = correlation_cache \o [i \in DOMAIN kept |-> kept[i].result]
       /\ correlation_stats' =
             [correlation_stats EXCEPT !.correlations_found = @ + Len(kept),
                                       !.rules_processed = @ + Len(enabled)]
       /\ UNCHANGED <<now, correlation_rules, event_cache>>
       /\ CorrelationOnly

\* _analyze_spatial_correlation applied to the cached events as one
\* location group: what it returns.
CallAnalyzeSpatialCorrelation ==
    \E i \in DOMAIN correlation_rules :
        /\ correlation_rules[i].correlation_type = "spatial"
        /\ computed' = AnalyzeSpatialCorrelation(correlation_rules[i],
                                                 AllRecent(event_cache, 0))
        /\ computed' # computed
        /\ UNCHANGED <<now, correlation_rules, event_cache, correlation_cache,
                       correlation_stats>>
        /\ CorrelationOnly

\* datetime.now() moves on between two calls of the correlation engine.
CorrelationTick ==
    /\ now < MaxCorrTime
    /\ now' = now + 1
    /\ computed' = <<>>
    /\ UNCHANGED <<correlation_rules, event_cache, correlation_cache, correlation_stats>>
    /\ CorrelationOnly

\* ------------------------------------------------------------------------
\* AlertActionEngine (alert_actions.py)
\* ------------------------------------------------------------------------
\* confidence and the numbers of a condition are counted in tenths: 0.9 is
\* 9.  A condition is the syntax tree of its string, and a Python value
\* carries its type, because eval raises on a comparison between types.

Num(n) == [type |-> "num", n |-> n, s |-> ""]
Str(s) == [type |-> "str", n |-> 0, s |-> s]
Bool(b) == [type |-> "bool", n |-> IF b THEN 1 ELSE 0, s |-> ""]
NoneValue == [type |-> "None", n |-> 0, s |-> ""]

\* bool(value), as `not value` takes it.
Truthy(value) ==
    CASE value.type \in {"num", "bool"} -> value.n # 0
      [] value.type = "str" -> value.s # ""
      [] OTHER -> FALSE

\* 'name > n', for example "confidence > 0.9".
Greater(name, n) == [kind |-> "greater", name |-> name, n |-> n]
\* 'name', for example "source_ip".
Name(name) == [kind |-> "name", name |-> name, n |-> 0]
\* A string that is not an expression, for example "confidence >".
Malformed == [kind |-> "malformed", name |-> "", n |-> 0]

\* AlertContext of alert_actions.py; additional_data keeps its default, {}.
ActionContext(alert_type, source_ip, confidence) ==
    [alert_type |-> alert_type, source_ip |-> source_ip, target_ip |-> None,
     severity |-> "medium", confidence |-> confidence]

ActionConfig(action_type, enabled, auto_execute, ttl_minutes, conditions) ==
    [action_type |-> action_type, enabled |-> enabled,
     auto_execute |-> auto_execute, ttl_minutes |-> ttl_minutes,
     conditions |-> conditions]

\* local_vars of _evaluate_condition: the only names a condition can read.
LocalVars(context) ==
    [name \in {"confidence", "severity", "source_ip", "target_ip"} |->
        CASE name = "confidence" -> Num(context.confidence)
          [] name = "severity" -> Str(context.severity)
          [] name = "source_ip" ->
                IF context.source_ip = None THEN NoneValue ELSE Str(context.source_ip)
          [] OTHER ->
                IF context.target_ip = None THEN NoneValue ELSE Str(context.target_ip)]

\* eval(condition, {"__builtins__": {}}, local_vars): a SyntaxError for a
\* malformed string, a NameError for a name outside local_vars, a TypeError
\* for '>' between a str or None and a number; otherwise the value.
Eval(condition, context) ==
    LET local_vars == LocalVars(context)
        Raises == [raises |-> TRUE, value |-> NoneValue]
    IN CASE condition.kind = "malformed" -> Raises
         [] condition.name \notin DOMAIN local_vars -> Raises
         [] condition.kind = "name" ->
                [raises |-> FALSE, value |-> local_vars[condition.name]]
         [] OTHER ->
                IF local_vars[condition.name].type \in {"num", "bool"}
                THEN [raises |-> FALSE,
                      value |-> Bool(local_vars[condition.name].n > condition.n)]
                ELSE Raises

EvaluateConditionLenient(condition, context) ==
    LET r == Eval(condition, context)
    IN IF r.raises THEN Bool(TRUE) ELSE r.value

\* _evaluate_condition: what eval returned, False when it raised.
EvaluateCondition(condition, context) ==
    LET r == Eval(condition, context)
    IN IF r.raises THEN Bool(FALSE) ELSE r.value

\* _check_conditions.
CheckConditions(config, context) ==
    IF config.conditions = <<>>
    THEN TRUE
    ELSE \A k \in DOMAIN config.conditions :
            Truthy(EvaluateCondition(config.conditions[k], context))

\* active_blocks[ip] = expiry: an assignment to a dict kept in insertion order.
SetBlock(blocks, ip, expiry) ==
    IF \E k \in DOMAIN blocks : blocks[k].ip = ip
    THEN [k \in DOMAIN blocks |->
            IF blocks[k].ip = ip THEN [ip |-> ip, expiry |-> expiry] ELSE blocks[k]]
    ELSE Append(blocks, [ip |-> ip, expiry |-> expiry])

\* _block_ip: nothing without an address; the block is recorded only when
\* iptables returned 0.
BlockIp(blocks, ip, ttl_minutes, iptables_ok, t) ==
    IF ip = None \/ ~iptables_ok
    THEN blocks
    ELSE SetBlock(blocks, ip, t + ttl_minutes * 60)

\* _execute_action: the result it appends to action_history and returns, and
\* the blocks afterwards.  The operations it awaits catch their own
\* exceptions, so the status is 'success'.
ExecuteAction(config, context, blocks, iptables_ok, t) ==
    [result |-> [action |-> config.action_type,
                 source_ip |-> context.source_ip,
                 status |-> "success"],
     blocks |-> IF config.action_type = "block_ip"
                THEN BlockIp(blocks, context.source_ip, config.ttl_minutes,
                             iptables_ok, t)
                ELSE blocks]

\* The loop of process_alert from config i on.  run carries what the loop
\* has done so far.
RECURSIVE WalkConfigs(_, _, _, _, _, _)
WalkConfigs(configs, context, i, run, iptables_ok, t) ==
    IF i > Len(configs)
    THEN run
    ELSE LET config == configs[i]
         IN IF ~config.enabled \/ ~CheckConditions(config, context)
            THEN WalkConfigs(configs, context, i + 1, run, iptables_ok, t)
            ELSE IF config.auto_execute
            THEN LET done == ExecuteAction(config, context, run.blocks,
                                           iptables_ok, t)
                 IN WalkConfigs(configs, context, i + 1,
                                [run EXCEPT !.executed = @ \cup {i},
                                            !.actions_performed = Append(@, done.result),
                                            !.history = Append(@, done.result),
                                            !.blocks = done.blocks],
                                iptables_ok, t)
            ELSE WalkConfigs(configs, context, i + 1,
                             [run EXCEPT !.queued = @ \cup {i}],
                             iptables_ok, t)

\* _setup_default_actions, for the alert types of the model.
DefaultActionConfigs ==
    [alert_type \in {"ddos_syn_flood", "anomaly_detection"} |->
        IF alert_type = "ddos_syn_flood"
        THEN << ActionConfig("rate_limit", TRUE, TRUE, 30, <<>>),
                ActionConfig("block_ip", TRUE, FALSE, 60, <<Greater("confidence", 9)>>),
                ActionConfig("notify_admin", TRUE, TRUE, 60, <<>>) >>
        ELSE << ActionConfig("notify_admin", TRUE, TRUE, 60, <<>>),
                ActionConfig("log_event", TRUE, TRUE, 60, <<>>) >>]

InitAlertActionEngine ==
    /\ action_configs = DefaultActionConfigs
    /\ active_blocks = <<>>
    /\ action_history = <<>>
    /\ lastActions = [called |-> FALSE, context |-> None, configs |-> <<>>,
                      executed |-> {}, queued |-> {}, actions_performed |-> <<>>]

MaxHistory == 2

ActionContexts ==
    {ActionContext(alert_type, source_ip, confidence) :
        alert_type \in {"ddos_syn_flood", "anomaly_detection"},
        source_ip \in {None, "10.0.0.5"},
        confidence \in {8, 10}}

\* await alert_action_engine.process_alert(context).  None of the coroutines
\* it awaits suspends, so the call runs to its end in one step.
ProcessAlert ==
    \E context \in ActionContexts, iptables_ok \in BOOLEAN :
        LET known == context.alert_type \in DOMAIN action_configs
            configs == IF known THEN action_configs[context.alert_type] ELSE <<>>
            run == WalkConfigs(configs, context, 1,
                               [executed |-> {}, queued |-> {},
                                actions_performed |-> <<>>,
                                history |-> action_history,
                                blocks |-> active_blocks],
                               iptables_ok, now)
        IN /\ Len(run.history) <= MaxHistory
           /\ lastActions' = [called |-> TRUE, context |-> context,
                              configs |-> configs, executed |-> run.executed,
                              queued |-> run.queued,
                              actions_performed |-> run.actions_performed]
           /\ action_history' = run.history
           /\ active_blocks' = run.blocks
           /\ UNCHANGED <<now, action_configs>>
           /\ ActionsOnly

\* The lists an operator puts in place of the defaults: a disabled action,
\* one that waits for approval, and conditions eval cannot evaluate or
\* evaluates to a value that is not a bool.
OperatorActionLists ==
    { << ActionConfig("rate_limit", FALSE, TRUE, 30, <<>>),
         ActionConfig("block_ip", TRUE, FALSE, 60, <<Greater("confidence", 9)>>),
         ActionConfig("notify_admin", TRUE, TRUE, 60, <<Name("user")>>),
         ActionConfig("log_event", TRUE, TRUE, 60, <<>>) >>,
      << ActionConfig("block_ip", TRUE, TRUE, 180,
                      <<Name("source_ip"), Greater("confidence", 9)>>),
         ActionConfig("notify_admin", TRUE, FALSE, 60, <<Greater("source_ip", 0)>>) >>,
      << ActionConfig("block_ip", FALSE, FALSE, 60, <<>>),
         ActionConfig("rate_limit", TRUE, TRUE, 30, <<Malformed>>),
         ActionConfig("notify_admin", TRUE, FALSE, 60, <<Malformed>>) >> }

\* alert_action_engine.action_configs[alert_type] = configs.
SetActionConfigs ==
    \E alert_type \in {"ddos_syn_flood"}, configs \in OperatorActionLists :
        /\ action_configs' =
              [a \in DOMAIN action_configs \cup {alert_type} |->
                  IF a = alert_type THEN configs ELSE action_configs[a]]
        /\ action_configs' # action_configs
        /\ UNCHANGED <<now, active_blocks, action_history, lastActions>>
        /\ ActionsOnly

\* del alert_action_engine.action_configs[alert_type].
DelActionConfigs ==
    \E alert_type \in DOMAIN action_configs :
        /\ action_configs' = [a \in DOMAIN action_configs \ {alert_type} |->
                                 action_configs[a]]
        /\ UNCHANGED <<now, active_blocks, action_history, lastActions>>
        /\ ActionsOnly

Init ==
    /\ now = 0
    /\ InitPeriodicTasks
    /\ InitCorrelationEngine
    /\ InitAlertManager
    /\ InitAlertActionEngine
    /\ InitRuleEngine
    /\ InitNotificationService
    /\ InitAnalyzerCore

\* ---- deduplication: create_alert with every argument combination ----
CreateAlert == CreateAlertFrom(CreateArgs, MaxAlerts) /\ AlertsOnly
AcknowledgeAlertSilently == AcknowledgeAlertWith({None}) /\ AlertsOnly
CloseAlertSilently == CloseAlertWith({None}) /\ AlertsOnly

NextDedup ==
    \/ CreateAlert
    \/ AcknowledgeAlertSilently
    \/ CloseAlertSilently

SpecDedup == Init /\ [][NextDedup]_vars

\* ---- lifecycle: every operation, with and without a note, on the first
\* alert of the store ----
CreateLifecycleAlert ==
    alerts = <<>> /\ CreateAlertFrom(LifecycleArgs, MaxAlerts) /\ AlertsOnly
AcknowledgeAlert == AcknowledgeAlertWith(NoteArgs) /\ AlertsOnly
StartProgress == StartProgressWith(NoteArgs) /\ AlertsOnly
ResolveAlert == ResolveAlertWith(NoteArgs) /\ AlertsOnly
CloseAlert == CloseAlertWith(NoteArgs) /\ AlertsOnly
EscalateAlert == EscalateAlertWith(NoteArgs) /\ AlertsOnly

\* ---- cleanup: alerts of every status and age, and cleanup_stale_alerts ----
ResolveAlertSilently == ResolveAlertWith({None}) /\ AlertsOnly

NextCleanup ==
    \/ CreateAlert
    \/ AcknowledgeAlertSilently
    \/ ResolveAlertSilently
    \/ CloseAlertSilently
    \/ Tick
    \/ CleanupStaleAlerts

SpecCleanup == Init /\ [][NextCleanup]_vars

\* ---- escalation: one alert of each tier, the clock and both ways to
\* escalate ----
CreateEscalationAlert ==
    alerts = <<>> /\ CreateAlertFrom(EscalationArgs, MaxAlerts) /\ AlertsOnly
EscalateAlertSilently == EscalateAlertWith({None}) /\ AlertsOnly

NextEscalation ==
    \/ CreateEscalationAlert
    \/ AcknowledgeAlertSilently
    \/ ResolveAlertSilently
    \/ CloseAlertSilently
    \/ EscalateAlertSilently
    \/ CheckEscalations
    \/ TimePasses

SpecEscalation == Init /\ [][NextEscalation]_vars

\* ---- escalation sweeps over alerts created with an escalation level ----
KwargsArgs ==
    [title : {<<"T1">>}, alert_type : AlertTypes, severity : {"medium"},
     source : {"analyzer"}, rule_name : {"r1"},
     context : {AlertContext("10.0.0.5")},
     escalation_level : {0, max_escalation_level}]

\* create_alert(..., escalation_level=n)
CreateAlertWithKwargs == CreateAlertFrom(KwargsArgs, MaxAlerts) /\ AlertsOnly

NextSweepErrors ==
    \/ CreateAlertWithKwargs
    \/ CheckEscalations
    \/ TimePasses

SpecSweepErrors == Init /\ [][NextSweepErrors]_vars

\* ---- alert groups: create_alert as the clock moves on ----
GroupingArgs == {args \in EscalationArgs : args.severity \in {"medium", "high"}}

CreateGroupedAlert == CreateAlertFrom(GroupingArgs, MaxGroupedAlerts) /\ AlertsOnly

NextGrouping ==
    \/ CreateGroupedAlert
    \/ TimePasses

SpecGrouping == Init /\ [][NextGrouping]_vars

\* ---- group ids under create_alert and cleanup_stale_alerts ----
\* The clock passes the grouping window once.
GroupingWindowPasses == TimePassesTo({901})

NextGroupIds ==
    \/ CreateGroupedAlert
    \/ AcknowledgeAlertSilently
    \/ CloseAlertSilently
    \/ GroupingWindowPasses
    \/ CleanupStaleAlerts

SpecGroupIds == Init /\ [][NextGroupIds]_vars

NextLifecycle ==
    \/ CreateLifecycleAlert
    \/ AcknowledgeAlert
    \/ StartProgress
    \/ ResolveAlert
    \/ CloseAlert
    \/ EscalateAlert
    \/ Tick

SpecLifecycle == Init /\ [][NextLifecycle]_vars

\* ---- threshold rules: events, the clock and the sweeps ----
NextThreshold ==
    \/ ProcessEvent
    \/ ThresholdSweep
    \/ ClockTick

SpecThreshold == Init /\ [][NextThreshold]_vars

\* ---- rules with faults: loading, events and the sweeps ----
NextMatching ==
    \/ ReloadFaultyRules
    \/ ProcessFieldEvent
    \/ ThresholdSweep

SpecMatching == Init /\ [][NextMatching]_vars

\* ---- the event cache of AnalyzerCore.process_event and the correlation
\* ---- cache of RuleEngine.process_event
NextBuffers ==
    \/ AnalyzerStartFaulty
    \/ CallCoreProcessEvent
    \/ CoreEnter
    \/ CoreAppendToEventCache
    \/ CoreProcessImmediateRules
    \/ CoreProcessThresholdRules
    \/ CoreCheckThreshold
    \/ ProcessKeyedEvent

SpecBuffers == Init /\ [][NextBuffers]_vars

\* ---- AnalyzerCore.process_event between start() and stop() ----
NextCore ==
    \/ AnalyzerStartFaulty
    \/ AnalyzerStop
    \/ CallCoreProcessEvent
    \/ CoreEnter
    \/ CoreAppendToEventCache
    \/ CoreProcessImmediateRules
    \/ CoreProcessThresholdRules
    \/ CoreCheckThreshold

SpecCore == Init /\ [][NextCore]_vars

\* ---- AnalyzerCore.process_event on a rule with a dedup_key ----
NextDedupKey ==
    \/ AnalyzerStartDedup
    \/ CallTimedProcessEvent
    \/ CoreEnter
    \/ CoreAppendToEventCache
    \/ CoreProcessImmediateRules
    \/ CoreProcessThresholdRules
    \/ ClockTick

SpecDedupKey == Init /\ [][NextDedupKey]_vars

\* ---- the dedup cache under process_event and the cleanup loop ----
NextDedupTtl ==
    \/ AnalyzerStartDedup
    \/ CallTimedProcessEvent
    \/ CoreEnter
    \/ CoreAppendToEventCache
    \/ CoreProcessImmediateRules
    \/ CoreProcessThresholdRules
    \/ TaskRun
    \/ CoreCleanupWake
    \/ ClockTick

SpecDedupTtl == Init /\ [][NextDedupTtl]_vars

\* ---- notification delivery ----
NextNotify ==
    \/ AddRecipient
    \/ NotificationStart
    \/ NotificationStop
    \/ SendNotification
    \/ WorkerLoop
    \/ WorkerTimeout
    \/ WorkerGet
    \/ DeliverToRecipient
    \/ GatherDone

SpecNotify == Init /\ [][NextNotify]_vars

\* ------------------------------------------------------------------------
\* Properties of the alert manager
\* ------------------------------------------------------------------------
\* The fields the deduplication is said to compare.
SameDedupFields(a, args) ==
    /\ a.source = args.source
    /\ a.rule_name = args.rule_name
    /\ a.context = args.context
    /\ a.title = args.title

\* C1: a create_alert call whose dedup-relevant fields (source, rule name,
\* IPs, ports, protocol, user, title) equal those of a stored alert returns
\* that alert and stores no new one.  Stated for the calls that carry a source
\* IP, the only ones create_alert looks up at all.
C1_SecondCreateReturnsFirst ==
    [][(lastCall'.op = "create_alert" /\ lastCall'.args.context.source_ip # None) =>
         \A id \in DOMAIN alerts :
            SameDedupFields(alerts[id], lastCall'.args) =>
               /\ lastAlert' = id
               /\ DOMAIN alerts' = DOMAIN alerts]_vars

IsOpen(a) == a.status \notin {"resolved", "closed"}

\* C2: in every reachable state at most one open alert (status neither
\* resolved nor closed) exists per dedup_key.  Stated for the alerts that carry
\* a source IP, the only ones create_alert looks up at all.
C2_OneOpenAlertPerKey ==
    \A i \in DOMAIN alerts, j \in DOMAIN alerts :
        (/\ i # j /\ IsOpen(alerts[i]) /\ IsOpen(alerts[j])
         /\ alerts[i].context.source_ip # None /\ alerts[j].context.source_ip # None)
            => alerts[i].dedup_key # alerts[j].dedup_key

LifecycleOps == {"acknowledge", "start_progress", "resolve", "close"}

\* The status each lifecycle operation asks for.
Target(op) ==
    CASE op = "acknowledge" -> "acknowledged"
      [] op = "start_progress" -> "in_progress"
      [] op = "resolve" -> "resolved"
      [] op = "close" -> "closed"

\* The transition table as documented, and as it is with the two further
\* moves (New to InProgress, Acknowledged to Resolved).
DocumentedTable ==
    {<<"new", "acknowledged">>, <<"acknowledged", "in_progress">>,
     <<"acknowledged", "closed">>, <<"in_progress", "resolved">>,
     <<"resolved", "closed">>}

ExtendedTable ==
    DocumentedTable \cup {<<"new", "in_progress">>, <<"acknowledged", "resolved">>}

Failed(ret) == ret \in {"False", "ValueError"}

\* A lifecycle call on a stored alert is made in this step.
LifecycleCall(id) ==
    /\ lastCall'.op \in LifecycleOps
    /\ lastCall'.id = id

\* A request outside the table fails and leaves the alert as it was.
RejectedOutside(table) ==
    \A id \in DOMAIN alerts :
        (LifecycleCall(id) /\ <<alerts[id].status, Target(lastCall'.op)>> \notin table)
            => /\ Failed(lastRet')
               /\ alerts'[id] = alerts[id]

FollowsTable(table) ==
    \A id \in DOMAIN alerts :
        LifecycleCall(id) =>
            LET move == <<alerts[id].status, Target(lastCall'.op)>>
            IN /\ alerts'[id].status # alerts[id].status =>
                     /\ move \in table
                     /\ alerts'[id].status = move[2]
               /\ move \notin table =>
                     /\ Failed(lastRet')
                     /\ alerts'[id].status = alerts[id].status

AllowedFrom(op) ==
    {st \in AllStatuses : <<st, Target(op)>> \in ExtendedTable}

\* C5: a successful escalate increments escalation_level by exactly one and
\* leaves the status unchanged, so every lifecycle operation allowed before
\* the escalation is still allowed after it.
C5_EscalateKeepsStatus ==
    [][\A id \in DOMAIN alerts :
          (lastCall'.op = "escalate" /\ lastCall'.id = id /\ lastRet' = "True") =>
             /\ alerts'[id].escalation_level = alerts[id].escalation_level + 1
             /\ alerts'[id].status = alerts[id].status
             /\ \A op \in LifecycleOps :
                   alerts[id].status \in AllowedFrom(op)
                      => alerts'[id].status \in AllowedFrom(op)]_vars

\* ------------------------------------------------------------------------
\* Properties of the notification service
\* ------------------------------------------------------------------------
\* C6: once _deliver_notification has awaited all fan-out attempts of a
\* notification, its status is "delivered" if and only if every attempt
\* succeeded, and "failed" if at least one attempt failed, whatever the order
\* of the recipients.
C6_StatusReflectsEveryAttempt ==
    \A n \in DOMAIN notifications :
        (notifications[n].passed /\ notifications[n].results # <<>>) =>
            LET res == notifications[n].results
                anyFailed == \E i \in DOMAIN res : res[i] = "raised"
            IN /\ notifications[n].status = "delivered" <=> ~anyFailed
               /\ anyFailed => notifications[n].status = "failed"

\* The positions of the enabled recipients of a notification.
EnabledPositions(n) ==
    {i \in DOMAIN notifications[n].recipients : notifications[n].recipients[i].enabled}

\* C7: when the delivery pass of a notification is over, a delivery attempt
\* has been made to every enabled recipient of it, also when the attempt to
\* another recipient raised an error.
C7_EveryEnabledRecipientAttempted ==
    \A n \in DOMAIN notifications :
        notifications[n].passed =>
            /\ notifications[n].attempted = EnabledPositions(n)
            /\ Len(notifications[n].results) = Cardinality(EnabledPositions(n))

\* A pass is over in which the attempt to the first recipient raised and the
\* attempt to the second was still made.
C7_Witness ==
    \E n \in DOMAIN notifications :
        /\ notifications[n].passed
        /\ Len(notifications[n].results) >= 2
        /\ notifications[n].results[1] = "raised"
        /\ notifications[n].attempted = EnabledPositions(n)

\* ------------------------------------------------------------------------
\* Properties of the threshold sweep
\* ------------------------------------------------------------------------
\* The length of a rule's window in seconds, read off the rule file.
WindowSeconds(rule) ==
    CASE rule.window = <<"1", "s">> -> 1
      [] rule.window = <<"2", "s">> -> 2
      [] OTHER -> 0

\* This step is a pass of the threshold processor.
SweepStep == lastSweep'.n = lastSweep.n + 1

ThresholdRules == {rule_set.rules[i] : i \in {j \in DOMAIN rule_set.rules :
                                                rule_set.rules[j].type = "threshold"}}

\* The events of a bucket that matched the rule and are timestamped within
\* its window of the time t.
HeldFor(rule, bucket, t) ==
    {i \in DOMAIN bucket.entries :
        /\ bucket.entries[i].rule = rule.name
        /\ bucket.entries[i].timestamp >= t - WindowSeconds(rule)}

\* The triggers a pass emitted for a rule and a group.
Emitted(checks, rule, key) ==
    Cardinality({i \in DOMAIN checks :
                    checks[i].rule = rule.name /\ checks[i].key = key /\ checks[i].fired})

\* C8: each sweep emits exactly one aggregated trigger for every group whose
\* bucket holds at least T events matching the rule and timestamped within W
\* of the sweep time, at every sweep while that is so, and none for a group
\* holding fewer than T such events.
C8_OneTriggerPerGroupAtThreshold ==
    [][SweepStep =>
         \A rule \in ThresholdRules : \A b \in DOMAIN threshold_cache :
            Emitted(lastSweep'.checks, rule, threshold_cache[b].key)
               = IF Cardinality(HeldFor(rule, threshold_cache[b], now)) >= rule.threshold
                 THEN 1 ELSE 0]_vars

RuleNamed(name) == CHOOSE rule \in ThresholdRules : rule.name = name

InRecent(check, entry) == \E i \in DOMAIN check.recent : check.recent[i] = entry

\* C9: window membership is inclusive at the lower bound: at a sweep at time
\* now, an entry timestamped exactly now - window is counted and an entry
\* timestamped one tick earlier is not; TimeWindow.is_in_window draws the
\* same line.
C9_LowerBoundInclusive ==
    [][SweepStep =>
         \A c \in DOMAIN lastSweep'.checks :
            LET check == lastSweep'.checks[c]
                rule == RuleNamed(check.rule)
                bucket == threshold_cache[BucketPos(threshold_cache, check.key)]
                edge == now - WindowSeconds(rule)
            IN /\ \A e \in DOMAIN bucket.entries :
                     /\ bucket.entries[e].timestamp = edge
                           => InRecent(check, bucket.entries[e])
                     /\ bucket.entries[e].timestamp = edge - 1
                           => ~InRecent(check, bucket.entries[e])
               /\ IsInWindow(edge, rule.window, now)
               /\ ~IsInWindow(edge - 1, rule.window, now)]_vars

\* A sweep has counted an entry timestamped exactly at the lower bound of the
\* window and left out one of the same bucket timestamped one tick earlier.
C9_Witness ==
    /\ lastSweep.n > 0
    /\ \E c \in DOMAIN lastSweep.checks :
          LET check == lastSweep.checks[c]
              edge == lastSweep.t - WindowSeconds(RuleNamed(check.rule))
              bucket == threshold_cache[BucketPos(threshold_cache, check.key)]
          IN /\ \E i \in DOMAIN check.recent : check.recent[i].timestamp = edge
             /\ \E e \in DOMAIN bucket.entries :
                   /\ bucket.entries[e].timestamp = edge - 1
                   /\ ~InRecent(check, bucket.entries[e])

\* ---- process_event calls interleaved with rule reloads ----
NextReload ==
    \/ AnalyzerStart
    \/ CallProcessEvent
    \/ EngineProcessImmediateRules
    \/ EngineAddToThresholdCache
    \/ EngineAddToCorrelationCache
    \/ CoreEnter
    \/ CoreAppendToEventCache
    \/ CoreProcessImmediateRules
    \/ CoreProcessThresholdRules
    \/ CoreCheckThreshold
    \/ ReloadRules

SpecReload == Init /\ [][NextReload]_vars

\* C10: under any interleaving of process_event calls with a rule reload,
\* each call evaluates its event against a single rule set: the RuleSet
\* object it reads is the same in its immediate, threshold and correlation
\* steps, the one before the reload or the one after it.
C10_OneRuleSetPerCall ==
    \A i \in DOMAIN calls :
        \A a, b \in DOMAIN calls[i].seen : calls[i].seen[a] = calls[i].seen[b]

\* A call that had begun when the rules were reloaded has read the rule set
\* in more than one step and returned, and the RuleSet object it read has
\* been replaced.
C10_Witness ==
    \E i \in DOMAIN calls :
        /\ calls[i].pc = "done"
        /\ calls[i].overlapped
        /\ Len(calls[i].seen) >= 2
        /\ calls[i].seen[1] < rule_set.gen

\* C11: if a rule reload fails because a rule file or a rule definition is
\* invalid, the rule set that was active before the reload remains the active
\* rule set, unchanged.
C11_FailedReloadKeepsRuleSet ==
    [][(rule_set'.gen # rule_set.gen /\ load_errors' > 0)
          => rule_set'.rules = rule_set.rules]_vars

\* A pass of the sweep found a group of a rule with an alert action holding
\* at least the rule's threshold of events recorded for that rule within the
\* window, and executed the rule.
ThresholdReachedForAlertRule ==
    \E c \in DOMAIN lastSweep.checks :
        LET check == lastSweep.checks[c]
        IN /\ check.fired
           /\ check.actions # <<>>
           /\ \A e \in DOMAIN check.recent : check.recent[e].rule = check.rule

\* C12: once a threshold rule with an alert action has reached its threshold
\* for one src_ip within the window, exactly one Alert exists, and further
\* matching events or sweeps add none.
C12_ThresholdCreatesOneAlert ==
    ThresholdReachedForAlertRule =>
        /\ Cardinality(DOMAIN alerts) = 1
        /\ estats.alerts_created = 1

\* This step is a call of cleanup_stale_alerts.
CleanupStep == lastCall'.op = "cleanup_stale_alerts"

\* The alerts that are Resolved or Closed and were created before the cutoff
\* of the call.
ResolvedOrClosedBefore(max_age_hours) ==
    {id \in DOMAIN alerts :
        /\ alerts[id].status \in {"resolved", "closed"}
        /\ alerts[id].created_at < now - 3600 * max_age_hours}

\* The ids a group index lists.
Grouped(groups) ==
    {id \in AlertIds : \E g \in DOMAIN groups : \E k \in DOMAIN groups[g].alerts :
                            groups[g].alerts[k] = id}

\* After the step the three indexes hold what they held before, less the
\* given alerts.
RemovesExactly(gone) ==
    /\ DOMAIN alerts' = DOMAIN alerts \ gone
    /\ \A id \in DOMAIN alerts' : alerts'[id] = alerts[id]
    /\ DOMAIN alerts_by_dedup' =
          {k \in DOMAIN alerts_by_dedup : alerts_by_dedup[k] \notin gone}
    /\ \A k \in DOMAIN alerts_by_dedup' : alerts_by_dedup'[k] = alerts_by_dedup[k]
    /\ Grouped(alerts_by_group') = Grouped(alerts_by_group) \ gone

\* C13: cleanup_stale_alerts(maxAge) removes exactly the alerts that are
\* Resolved or Closed and older than the cutoff, from the primary map, the
\* dedup index and the group index; an alert in any other status is never
\* removed, whatever its age.
C13_CleanupRemovesExactlyStale ==
    [][CleanupStep => RemovesExactly(ResolvedOrClosedBefore(lastCall'.args))]_vars

\* No two stored alerts carry the same dedup key.
DedupKeysDistinct ==
    \A a, b \in DOMAIN alerts : alerts[a].dedup_key = alerts[b].dedup_key => a = b

\* The same, for the calls made while no two stored alerts share a dedup key.
C13_CleanupWithDistinctKeys ==
    [][(CleanupStep /\ DedupKeysDistinct)
          => RemovesExactly(ResolvedOrClosedBefore(lastCall'.args))]_vars

\* The stored alerts that carry the dedup key an alert built from the
\* arguments would carry.
SameKeyAlerts(args) ==
    {id \in DOMAIN alerts : alerts[id].dedup_key = NewAlert(0, args, now).dedup_key}

\* C14: create_alert suppresses a duplicate only against an open alert: when
\* the only stored alerts with the same dedup key are Resolved or Closed,
\* create_alert constructs a new alert in status New instead of returning
\* an old one.
C14_NoSuppressionAgainstClosed ==
    [][(/\ lastCall'.op = "create_alert"
        /\ SameKeyAlerts(lastCall'.args) # {}
        /\ \A id \in SameKeyAlerts(lastCall'.args) :
               alerts[id].status \in {"resolved", "closed"})
          => /\ lastAlert' \notin DOMAIN alerts
             /\ lastAlert' \in DOMAIN alerts'
             /\ alerts'[lastAlert'].status = "new"]_vars

\* This step is a call of escalate_alert on a stored alert at the maximum
\* level.
EscalateAtMax(id) ==
    /\ lastCall'.op = "escalate" /\ lastCall'.id = id
    /\ id \in DOMAIN alerts
    /\ alerts[id].escalation_level = max_escalation_level

TierThreshold(a) ==
    CASE a.severity = "critical" -> 900
      [] a.severity = "high" -> 1800
      [] a.status = "new" -> 3600
      [] a.status = "acknowledged" -> 7200
      [] OTHER -> 0

\* C16: requires_escalation(alert, now) is true exactly when the alert is
\* still open and its age exceeds its tier threshold (15 minutes for Critical,
\* 30 minutes for High, otherwise 1 hour in New and 2 hours in Acknowledged),
\* and it is false for every Resolved or Closed alert.
C16_RequiresEscalationByTier ==
    \A id \in DOMAIN alerts :
        RequiresEscalation(alerts[id], now)
           <=> /\ alerts[id].status \in OpenStatuses
               /\ TierThreshold(alerts[id]) # 0
               /\ now - alerts[id].created_at > TierThreshold(alerts[id])

\* ---- the correlation engine: rules added, events added, sweeps ----
NextCorrelation ==
    \/ AddCorrelationRule
    \/ AddEvent
    \/ CorrelationSweep
    \/ CallAnalyzeSpatialCorrelation
    \/ CorrelationTick

SpecCorrelation == Init /\ [][NextCorrelation]_vars

\* The rule of that name among the loaded correlation rules.
CorrelationRuleNamed(name) ==
    correlation_rules[CHOOSE i \in DOMAIN correlation_rules :
                         correlation_rules[i].name = name]

\* C17: every confidence computed by the correlation engine (temporal,
\* spatial, attribute) lies in [0,1] (0..100 hundredths), and a correlation
\* whose confidence is below the rule's confidence_threshold is never
\* recorded as a CorrelationResult: what a step adds to the correlation
\* cache has a confidence at or above the threshold of its rule.
C17_ConfidenceBoundedAndThresholded ==
    [][/\ \A i \in DOMAIN computed' : computed'[i].confidence \in 0..100
       /\ \A i \in (Len(correlation_cache) + 1)..Len(correlation_cache') :
             /\ correlation_cache'[i].confidence \in 0..100
             /\ correlation_cache'[i].confidence >=
                   CorrelationRuleNamed(correlation_cache'[i].rule_name).confidence_threshold]_vars

\* A sweep has computed a temporal confidence of 0.85 for the rule with
\* threshold 0.9 and an attribute confidence that was recorded; nothing of
\* the temporal rule is in the correlation cache.
C17_Witness ==
    /\ \E i \in DOMAIN computed :
          computed[i].rule_name = "t90" /\ computed[i].confidence = 85
    /\ \E i \in DOMAIN computed :
          computed[i].rule_name = "attr" /\ computed[i].confidence >= 50
    /\ \E i \in DOMAIN correlation_cache : correlation_cache[i].rule_name = "attr"
    /\ \A i \in DOMAIN correlation_cache : correlation_cache[i].rule_name # "t90"

\* C18: within process_event, the event is evaluated against the immediate
\* rules before it is appended to any threshold or correlation buffer,
\* including the analyzer core's event cache: when a call evaluates the
\* immediate rules, its event is in no buffer yet.
C18_ImmediateBeforeBuffers ==
    [][\A i \in DOMAIN calls :
          (calls'[i].evaluated /\ ~calls[i].evaluated) => ~calls[i].buffered]_vars

\* ---- start, stop and the periodic loops ----
NextStop ==
    \/ AnalyzerStart
    \/ AnalyzerStop
    \/ EngineStart
    \/ EngineStop
    \/ TaskRun
    \/ CoreLoopWake
    \/ EngineLoopWake

SpecStop == Init /\ [][NextStop]_vars

\* C19: after stop, every periodic task (rule reload, threshold sweep,
\* correlation sweep, cleanup) exits: a sweep already in progress runs to
\* completion, and no new sweep begins after the stop signal.  Checked as:
\* a step in which a periodic task begins a pass is taken while is_running
\* of its owner holds.
C19_NoSweepAfterStop ==
    [][lastTask'.n > lastTask.n => IsRunning(lastTask'.owner)]_vars

\* ---- the periodic loops of AnalyzerCore under start, stop, reload_config ----
NextLoops ==
    \/ AnalyzerStart
    \/ AnalyzerStop
    \/ ReloadConfig
    \/ TaskRun
    \/ CoreLoopWake

SpecLoops == Init /\ [][NextLoops]_vars

\* ---- the delivery workers under start and stop ----
NextWorkers ==
    \/ AddRecipient
    \/ NotificationRestart
    \/ NotificationStop
    \/ SendNotification
    \/ WorkerLoop
    \/ WorkerTimeout
    \/ WorkerGet
    \/ DeliverToRecipient
    \/ GatherDone

SpecWorkers == Init /\ [][NextWorkers]_vars

\* ---- process_event of both engines on rules that are not active ----
NextInactive ==
    \/ AnalyzerStartInactive
    \/ ProcessEvent
    \/ CallCoreProcessEvent
    \/ CoreEnter
    \/ CoreAppendToEventCache
    \/ CoreProcessImmediateRules
    \/ CoreProcessThresholdRules
    \/ CoreCheckThreshold

SpecInactive == Init /\ [][NextInactive]_vars

\* ---- response actions: process_alert over the default and the
\* operator's action lists ----
NextActions ==
    \/ SetActionConfigs
    \/ DelActionConfigs
    \/ ProcessAlert

SpecActions == Init /\ [][NextActions]_vars

\* ---- notification delivery to recipients of an unsupported type ----
NextChannels ==
    \/ AddUnsupportedRecipient
    \/ NotificationStart
    \/ NotificationStop
    \/ SendNotification
    \/ WorkerLoop
    \/ WorkerTimeout
    \/ WorkerGet
    \/ DeliverToRecipient
    \/ GatherDone

SpecChannels == Init /\ [][NextChannels]_vars

\* C20: delivering to a recipient whose channel type is not one of the
\* supported channels fails with an error, and the notification ends in
\* status 'failed', not 'delivered'.
C20_UnsupportedChannelFails ==
    \A n \in DOMAIN notifications :
        notifications[n].passed =>
            \A pos \in notifications[n].attempted :
                notifications[n].recipients[pos].type \notin SupportedChannels =>
                    notifications[n].status = "failed"

\* ------------------------------------------------------------------------
\* C21: process_event never fails because of one rule: the event is still
\* evaluated against the remaining immediate and threshold rules, still
\* admitted to the buffers, and the results of the other rules are returned.
\* Stated of RuleEngine.process_event: after the call every threshold rule
\* that matches the event has the event as the last entry of its bucket,
\* every immediate rule that matches it is among the results, and the call
\* has reached the counter of processed events.
\* ------------------------------------------------------------------------
ProcessStep == lastProcess'.n = lastProcess.n + 1

LastEntryIs(cache, key, event) ==
    \E b \in DOMAIN cache :
        /\ cache[b].key = key
        /\ cache[b].entries[Len(cache[b].entries)].event = event

C21_OneRuleNeverStopsOthers ==
    [][ProcessStep =>
          LET event == lastProcess'.event
          IN /\ \A r \in DOMAIN rule_set.rules :
                   LET rule == rule_set.rules[r]
                   IN /\ (rule.type = "threshold" /\ MatchesEvent(rule, event))
                         => LastEntryIs(threshold_cache',
                                        CreateThresholdGroupKey(rule, event), event)
                      /\ (rule.type = "immediate" /\ MatchesEvent(rule, event))
                         => \E i \in DOMAIN lastProcess'.results :
                               lastProcess'.results[i] = rule.name
             /\ estats'.events_processed = estats.events_processed + 1]_vars

\* ------------------------------------------------------------------------
\* C22: a match condition whose numeric comparison has a non-numeric operand,
\* or whose regex pattern is malformed, evaluates to false and never raises
\* an error out of rule matching.  Stated of Rule.matches_event as
\* RuleEngine.process_event calls it: no call meets an error of matching.
\* ------------------------------------------------------------------------
C22_MatchingNeverRaises == lastProcess.errors = <<>>

\* ------------------------------------------------------------------------
\* C23: after every sweep or cleanup pass no threshold or correlation buffer
\* contains an event older than 2 x window relative to the time of that
\* pass.  Stated of the threshold cache after a pass of _threshold_processor:
\* every entry is timestamped at or after now - 2 x the window of its rule.
\* ------------------------------------------------------------------------
C23_SweepLeavesNoOldEntry ==
    [][SweepStep =>
          \A b \in DOMAIN threshold_cache' :
             \A i \in DOMAIN threshold_cache'[b].entries :
                LET entry == threshold_cache'[b].entries[i]
                IN entry.timestamp >= now - 2 * WindowSeconds(RuleNamed(entry.rule))]_vars

\* ------------------------------------------------------------------------
\* C24: after every process_event the analyzer core's event cache holds at
\* most max_correlation_events events, the events evicted on overflow are the
\* oldest ones, and each per-key correlation buffer of the rule engine
\* likewise never exceeds max_correlation_events.
\* ------------------------------------------------------------------------
\* list is what is left of before when its oldest entries have gone.
IsSuffixOf(list, before) ==
    /\ Len(list) <= Len(before)
    /\ list = SubSeq(before, Len(before) - Len(list) + 1, Len(before))

\* The entries a buffer of the correlation cache held under key.
EntriesOf(cache, key) ==
    IF BucketPos(cache, key) = 0 THEN <<>> ELSE cache[BucketPos(cache, key)].entries

C25_NoBucketWithoutGroupValue ==
    \A b \in DOMAIN threshold_cache :
       \A i \in DOMAIN threshold_cache[b].entries :
          LET entry == threshold_cache[b].entries[i]
          IN \A r \in DOMAIN rule_set.rules :
                rule_set.rules[r].name = entry.rule
                => \A f \in DOMAIN rule_set.rules[r].group_by :
                      rule_set.rules[r].group_by[f] \in DOMAIN entry.event

\* ------------------------------------------------------------------------
\* C26: a threshold rule whose window string is not a number followed by
\* exactly one unit of s, m, h or d is rejected as a configuration error when
\* the rule set is loaded, so no such rule is in the active rule set at
\* evaluation time.
\* ------------------------------------------------------------------------
\* A number followed by exactly one unit.
NumberAndUnit(window_str) ==
    /\ Len(window_str) >= 2
    /\ \A i \in 1..(Len(window_str) - 1) : IsDigit(window_str[i])
    /\ window_str[Len(window_str)] \in {"s", "m", "h", "d"}

C26_NoMalformedWindowInRuleSet ==
    \A r \in DOMAIN rule_set.rules :
       rule_set.rules[r].type = "threshold" => NumberAndUnit(rule_set.rules[r].window)

\* ------------------------------------------------------------------------
\* C27: create_alert puts a new alert into an existing group when that group
\* holds an alert with the same alert type, severity and source IP created
\* within the last hour, and otherwise creates a new group containing only
\* the new alert.
\* ------------------------------------------------------------------------
\* create_alert constructs an alert in this step.
ConstructStep == next_id' = next_id + 1

\* The group holds an alert like a that was created within the last hour.
HoldsAlertLike(group, a) ==
    \E i \in DOMAIN group.alerts :
        LET b == alerts[group.alerts[i]]
        IN /\ b.alert_type = a.alert_type
           /\ b.severity = a.severity
           /\ b.context.source_ip = a.context.source_ip
           /\ now - b.created_at < 3600

\* The alert went into a group that was there, after the alerts it held.
JoinedGroup(g, a) ==
    /\ a.group_id = alerts_by_group[g].id
    /\ alerts_by_group' = [alerts_by_group EXCEPT ![g].alerts = Append(@, a.id)]

\* A group was made that holds the alert alone.
MadeGroup(a) ==
    /\ Len(alerts_by_group') = Len(alerts_by_group) + 1
    /\ SubSeq(alerts_by_group', 1, Len(alerts_by_group)) = alerts_by_group
    /\ alerts_by_group'[Len(alerts_by_group')] = [id |-> a.group_id, alerts |-> <<a.id>>]

C27_GroupsByAnyMemberWithinTheHour ==
    [][ConstructStep =>
          LET a == alerts'[next_id]
          IN IF \E g \in DOMAIN alerts_by_group : HoldsAlertLike(alerts_by_group[g], a)
             THEN \E g \in DOMAIN alerts_by_group :
                     HoldsAlertLike(alerts_by_group[g], a) /\ JoinedGroup(g, a)
             ELSE MadeGroup(a)]_vars

\* What create_alert does: the first group whose first alert can_group_with
\* the new alert takes it, and without such a group a new one is made.
GroupsByFirstAlert ==
    [][ConstructStep =>
          LET a == alerts'[next_id]
              g == FirstGroupFor(a, alerts_by_group, 1)
          IN IF g # 0 THEN JoinedGroup(g, a) ELSE MadeGroup(a)]_vars

\* ------------------------------------------------------------------------
\* C28: an error raised while a background sweep handles one rule, group or
\* alert does not abort the cycle: the remaining rules, groups and alerts are
\* still processed in that cycle and the next cycle still runs.  Stated of
\* the escalation sweep: after check_escalations every alert that was due for
\* escalation and could be escalated is Escalated, whether or not another
\* alert of the sweep raised.
\* ------------------------------------------------------------------------
C28_SweepHandlesRemainingAlerts ==
    [][lastCall'.op = "check_escalations" =>
          \A id \in DOMAIN alerts :
             (GetEscalationAction(alerts[id], now) # None /\ ~EscalateRaises(alerts[id]))
             => alerts'[id].status = "escalated"]_vars

\* The same of the threshold sweep: a rule whose window_timedelta raises is
\* passed over, and every bucket of the rules after it is still checked.
C28_ThresholdSweepHandlesRemainingRules ==
    [][SweepStep =>
          \A r \in DOMAIN rule_set.rules, b \in DOMAIN threshold_cache :
             LET rule == rule_set.rules[r]
             IN (/\ rule.type = "threshold"
                 /\ WindowTimedelta(rule) \notin {0, ValueError}
                 /\ StartsWith(threshold_cache[b].key, rule.name))
                => \E c \in DOMAIN lastSweep'.checks :
                      /\ lastSweep'.checks[c].rule = rule.name
                      /\ lastSweep'.checks[c].key = threshold_cache[b].key]_vars

\* ------------------------------------------------------------------------
\* C29: while the analyzer is running, process_event on an event that matches
\* an active Immediate rule having an alert action returns a trigger result
\* for that rule, and an Alert for it is stored in the Alert Manager when
\* process_event returns.  Stated of the AnalyzerCore.process_event calls that
\* have returned after evaluating the immediate rules: there is one result
\* for each immediate rule that matches the event, and an alert of each such
\* rule with an alert action is in self.alerts.
\* ------------------------------------------------------------------------
\* The active immediate rules of the rule set that match the event.
MatchingImmediate(event) ==
    {r \in DOMAIN rule_set.rules :
        /\ rule_set.rules[r].type = "immediate"
        /\ IsActive(rule_set.rules[r])
        /\ MatchEvent(event, rule_set.rules[r].matches)}

HasAlertAction(rule) == \E a \in DOMAIN rule.actions : rule.actions[a].type = "alert"

C29_ImmediateAlertRuleTriggers ==
    \A i \in DOMAIN calls :
       (/\ calls[i].kind = "core" /\ calls[i].pc = "done" /\ calls[i].evaluated
        /\ ~calls[i].overlapped
        /\ \E r \in MatchingImmediate(calls[i].event) : HasAlertAction(rule_set.rules[r]))
       => /\ calls[i].results >= Cardinality(MatchingImmediate(calls[i].event))
          /\ \A r \in MatchingImmediate(calls[i].event) :
                HasAlertAction(rule_set.rules[r])
                => \E id \in DOMAIN alerts : alerts[id].rule_name = rule_set.rules[r].name

\* ---- C30 ----
\* A step in which call i of AnalyzerCore.process_event runs its first test.
CoreEnterStep(i) ==
    /\ calls[i].kind = "core" /\ calls[i].pc = "start"
    /\ calls' # calls /\ Len(calls') = Len(calls) /\ calls'[i].pc # "start"

\* C30: start() leaves the analyzer reporting running and stop() leaves it
\* reporting stopped; a process_event call that begins while the analyzer runs
\* is counted and goes on to the event cache and the rules; a process_event
\* call that begins while the analyzer is stopped returns the empty list and
\* leaves the counters and the event cache as they were.
C30_StoppedAnalyzerSkipsEvents ==
    [][/\ (rule_set'.gen # rule_set.gen => core'.is_running)
       /\ (core.is_running /\ core' # core /\ calls' = calls => ~core'.is_running)
       /\ \A i \in DOMAIN calls :
             CoreEnterStep(i) =>
               IF core.is_running
               THEN /\ core'.processed_events_count = core.processed_events_count + 1
                    /\ calls'[i].pc = "cache_lock"
               ELSE /\ calls'[i].pc = "done"
                    /\ calls'[i].results = 0
                    /\ ~calls'[i].evaluated /\ ~calls'[i].buffered
                    /\ core' = core]_vars

\* After start(), one call has gone through the rules and has been counted,
\* and after stop() another call has returned without being looked at.
C30_Witness ==
    /\ rule_set.gen > 0 /\ ~core.is_running
    /\ core.processed_events_count = 1
    /\ Len(calls) >= 2
    /\ calls[1].pc = "done" /\ calls[1].evaluated /\ calls[1].buffered
    /\ calls[2].pc = "done" /\ ~calls[2].evaluated /\ ~calls[2].buffered
    /\ calls[2].results = 0
    /\ Len(core.event_cache) = 1 /\ core.event_cache[1] = calls[1].event

\* ---- C31 ----
\* A step in which call i of AnalyzerCore.process_event goes through the
\* immediate rules.
CoreImmediateStep(i) ==
    /\ calls[i].kind = "core" /\ calls[i].pc = "immediate"
    /\ Len(calls') = Len(calls) /\ calls'[i].pc = "threshold"

\* The dedup cache recorded this key, and its TTL has not run out at time t.
RecordedWithinTtl(dedup_key, t) ==
    \E p \in DOMAIN lastDup.recorded :
        /\ lastDup.recorded[p].key = dedup_key
        /\ t - lastDup.recorded[p].timestamp <= lastDup.recorded[p].ttl

\* C31: when an event matches the immediate rule 'd' and renders a dedup key
\* the cache recorded within the TTL, process_event returns no trigger result
\* for it and no alert or notification is added.
C31_DuplicateGivesNoSecondResult ==
    [][\A i \in DOMAIN calls :
          /\ CoreImmediateStep(i)
          /\ MatchEvent(calls[i].event, RuleD.matches)
          /\ RecordedWithinTtl(BuildDedupKey(RuleD.dedup_key, calls[i].event), now)
          => /\ calls'[i].results = 0
             /\ alerts' = alerts
             /\ notifications' = notifications]_vars

\* ---- C32 ----
\* C32: an is_duplicate query for a key the cache recorded at time s with TTL
\* t answers true while no more than t has passed since s, and false after
\* that, whether or not the cleanup loop has run in between.
C32_DuplicateForTheWholeTtl ==
    [][lastDup'.n = lastDup.n + 1
       => \A p \in DOMAIN lastDup.recorded :
             lastDup.recorded[p].key = lastDup'.key
             => (lastDup'.ret <=>
                   now - lastDup.recorded[p].timestamp <= lastDup.recorded[p].ttl)]_vars

\* ---- C33 ----
\* C33: a notification whose delivery pass is over is 'delivered' or 'failed',
\* never 'pending', also when it had no enabled recipient.
C33_DeliveryPassEndsTerminal ==
    \A n \in DOMAIN notifications :
        notifications[n].passed => notifications[n].status \in {"delivered", "failed"}

\* ---- C34 ----
\* Task i is inside the while loop of a periodic loop of AnalyzerCore.
InCoreLoop(i) == periodic_tasks[i].owner = "core" /\ periodic_tasks[i].pc = "sleep"

\* C34: of each periodic loop of AnalyzerCore (rule reload, correlation,
\* cleanup) at most one instance is inside its loop at any time, whatever
\* start, stop and reload_config calls were made.
C34_OneInstancePerCoreLoop ==
    \A i, j \in DOMAIN periodic_tasks :
        InCoreLoop(i) /\ InCoreLoop(j) /\ periodic_tasks[i].loop = periodic_tasks[j].loop
        => i = j

\* ---- C35 ----
\* The worker tasks inside the loop of _delivery_worker: waiting on the queue
\* or delivering.
DrainingWorkers == {w \in DOMAIN workers : workers[w].pc \in {"get", "gather"}}

\* C35: at most one delivery worker takes notifications from the queue at any
\* time, whatever start and stop calls were made.
C35_OneDeliveryWorker == Cardinality(DrainingWorkers) <= 1

\* ---- C36 ----
\* C36: a threshold trigger of rule R is computed only from buffer entries
\* recorded for R, never from the entries of a rule whose name begins with
\* R's name.
C36_TriggerFromOwnEntriesOnly ==
    \A c \in DOMAIN lastSweep.checks :
        lastSweep.checks[c].fired
        => \A e \in DOMAIN lastSweep.checks[c].recent :
              lastSweep.checks[c].recent[e].rule = lastSweep.checks[c].rule

\* ---- C37 ----
\* The names of the loaded rules that are disabled or not of status active.
InactiveNames == {rule_set.rules[r].name : r \in {k \in DOMAIN rule_set.rules :
                                                     ~IsActive(rule_set.rules[k])}}

\* The loaded immediate rules that are active.
ActiveImmediate ==
    {r \in DOMAIN rule_set.rules :
        rule_set.rules[r].type = "immediate" /\ IsActive(rule_set.rules[r])}

\* RuleEngine.process_event gives no result for a rule that is not active
\* and files the event under none.
EngineSkipsInactive ==
    [][lastProcess'.n > lastProcess.n
       => /\ \A p \in DOMAIN lastProcess'.results : lastProcess'.results[p] \notin InactiveNames
          /\ \A p \in DOMAIN lastProcess'.admitted :
                lastProcess'.admitted[p] \notin InactiveNames]_vars

\* C37: process_event gives no trigger result for a rule that is disabled or
\* whose status is not active, in RuleEngine and in AnalyzerCore: the results
\* of RuleEngine name no such rule, and AnalyzerCore returns no more
\* immediate results than there are active immediate rules.
C37_InactiveRuleNeverTriggers ==
    [][/\ lastProcess'.n > lastProcess.n
          => \A p \in DOMAIN lastProcess'.results :
                lastProcess'.results[p] \notin InactiveNames
       /\ \A i \in DOMAIN calls :
             CoreImmediateStep(i) => calls'[i].results <= Cardinality(ActiveImmediate)]_vars

\* ---- C38 ----
\* The groups of alerts_by_group that list the alert.
GroupsListing(id) ==
    {g \in DOMAIN alerts_by_group :
        \E p \in DOMAIN alerts_by_group[g].alerts : alerts_by_group[g].alerts[p] = id}

\* Every stored alert is listed by exactly one group, the one its group_id
\* names.
MembershipConsistent ==
    \A id \in DOMAIN alerts :
        /\ Cardinality(GroupsListing(id)) = 1
        /\ \A g \in GroupsListing(id) : alerts_by_group[g].id = alerts[id].group_id

\* C38: under create_alert and cleanup_stale_alerts, a group that create_alert
\* makes never takes the id of a group that exists, and every stored alert is
\* a member of exactly the group its group_id names.
C38_GroupIdsUniqueAndConsistent ==
    [][/\ stats'.groups_created > stats.groups_created
          => \A g \in DOMAIN alerts_by_group :
                alerts_by_group[g].id # alerts'[lastAlert'].group_id
       /\ MembershipConsistent']_vars

\* ---- C39 ----
\* Every entry of the dedup index refers to an alert that is stored.
IndexRefersToStored ==
    \A k \in DOMAIN alerts_by_dedup : alerts_by_dedup[k] \in DOMAIN alerts

\* Every entry of the dedup index is under the key create_alert computes for
\* the fields of the alert it refers to.
IndexUnderLookupKey ==
    \A k \in DOMAIN alerts_by_dedup :
        alerts_by_dedup[k] \in DOMAIN alerts
        => LET a == alerts[alerts_by_dedup[k]]
           IN k = ManagerDedupKey(a.title, a.source, a.rule_name, a.context)

\* A step keeps the index entry of every alert that stays stored.
KeepsEntriesOfStored ==
    \A k \in DOMAIN alerts_by_dedup :
        alerts_by_dedup[k] \in DOMAIN alerts' => k \in DOMAIN alerts_by_dedup'

\* C39: in every reachable state each entry of the dedup index refers to a
\* stored alert, under the key create_alert looks up for that alert's fields,
\* and no step removes the index entry of an alert that stays stored.
C39_DedupIndexConsistent ==
    [][IndexRefersToStored' /\ IndexUnderLookupKey' /\ KeepsEntriesOfStored]_vars

\* What the claim says of one condition: eval gives a value for it, and the
\* value is true.
EvaluatesToTrue(condition, context) ==
    /\ ~Eval(condition, context).raises
    /\ Truthy(Eval(condition, context).value)

CannotBeEvaluated(condition, context) == Eval(condition, context).raises

\* C40: process_alert executes a response action only when the action is
\* enabled, every one of its conditions evaluates to true and auto_execute is
\* set; an action with auto_execute false is only queued for approval, never
\* executed, and an action with a condition that cannot be evaluated is
\* treated as one whose condition is false: neither executed nor queued.
\* What the call returns and what it adds to action_history are the results
\* of the executed actions, in the order of the list.
C40_ExecutesOnlyEnabledAutoActions ==
    lastActions.called =>
        LET configs == lastActions.configs
            context == lastActions.context
        IN /\ \A i \in lastActions.executed :
                /\ configs[i].enabled
                /\ configs[i].auto_execute
                /\ \A k \in DOMAIN configs[i].conditions :
                      EvaluatesToTrue(configs[i].conditions[k], context)
           /\ \A i \in DOMAIN configs :
                ~configs[i].auto_execute =>
                    i \notin lastActions.executed
           /\ \A i \in lastActions.queued : ~configs[i].auto_execute
           /\ \A i \in DOMAIN configs :
                (\E k \in DOMAIN configs[i].conditions :
                    CannotBeEvaluated(configs[i].conditions[k], context))
                => i \notin lastActions.executed \cup lastActions.queued
           /\ Len(lastActions.actions_performed) = Cardinality(lastActions.executed)
           /\ Len(action_history) >= Len(lastActions.actions_performed)
           /\ \A r \in DOMAIN lastActions.actions_performed :
                action_history[Len(action_history)
                               - Len(lastActions.actions_performed) + r]
                    = lastActions.actions_performed[r]

\* One call that met all four cases: it executed an action, queued one for
\* approval, passed over a disabled one and passed over one whose condition
\* raised.
C40_Witness ==
    /\ lastActions.called
    /\ lastActions.executed # {}
    /\ lastActions.queued # {}
    /\ \E i \in DOMAIN lastActions.configs : ~lastActions.configs[i].enabled
    /\ \E i \in DOMAIN lastActions.configs :
          /\ lastActions.configs[i].enabled
          /\ lastActions.configs[i].auto_execute
          /\ \E k \in DOMAIN lastActions.configs[i].conditions :
                CannotBeEvaluated(lastActions.configs[i].conditions[k],
                                  lastActions.context)

====
